---- MODULE Spec2Model ----
(***************************************************************************)
(* The data lineage tracker of src/monitoring/data_lineage.py:             *)
(* DataLineageTracker with its asset registry, transformation log, the two *)
(* adjacency maps derived from the log, the graph queries and the JSON     *)
(* persistence.                                                            *)
(***************************************************************************)
EXTENDS Integers, Sequences, FiniteSets, TLC

VARIABLES
    assets,           \* self.assets: insertion-ordered dict, a sequence of [k, v]
    transformations,  \* self.transformations: the log, a sequence of DataTransformation
    dependencies,     \* self.dependencies: key -> set of keys
    downstream,       \* self.downstream: key -> set of keys
    lineage_file,     \* the document at self.lineage_file, or NoFile
    last_call,        \* the operation executed last, with its argument and outcome
    result            \* the value returned by the query executed last

vars == <<assets, transformations, dependencies, downstream, lineage_file,
          last_call, result>>

(***************************************************************************)
(* Bounds and input sets                                                   *)
(***************************************************************************)
\* the size a transformation log may reach: one per transformation plus one per
\* source it lists
MaxLogSize == 4

\* the length of the changed_assets list given to analyze_impact
MaxChanged == 2

\* the number of edges of a graph the queries are put to
MaxEdges == 4

\* the interpreter's limit on nested calls
RecursionLimit == 4

\* the number of entries, assets and transformations together, of a lineage
\* document found on disk
MaxDocument == 3

\* the size of a set up to which every iteration order is enumerated
MaxPermuted == 3

\* the number of assets downstream of the changed asset, and the number of
\* transformations that read it, in the graphs risk levels are computed on
MaxFan == 12

MaxDirect == 6

Schemas == {<<"b">>, <<"s">>, <<"g">>}

Names == {<<"x">>}

\* the schemas the producer interface is driven with
ProducerSchemas == {<<"b">>, <<"s">>}

AssetTypes == {"table"}

TransformationTypes == {"etl", "view"}

None == "None"

\* Path(self.lineage_file).exists() is false
NoFile == [exists |-> FALSE]

EmptyMap == <<>>

\* no query has returned since the last change of the tracker
NoResult == [op |-> None]

(***************************************************************************)
(* Strings are sequences of characters, so that the key of an asset is the *)
(* concatenation the code computes.                                        *)
(***************************************************************************)
asset_key(asset) == asset.schema \o <<".">> \o asset.name

\* the optional fields are left at their defaults
DataAsset ==
    [name : Names, type : AssetTypes, schema : Schemas, description : {None},
     created_date : {None}, last_modified : {None}, owner : {None}, tags : {<<>>}]

Keys == {asset_key(a) : a \in DataAsset}

ProducerAssets == {a \in DataAsset : a.schema \in ProducerSchemas}

\* assets that differ in their type, description and tags under one key
DescribedAssets ==
    [name : Names, type : {"table", "view"}, schema : ProducerSchemas,
     description : {None, "Raw data from source system"},
     created_date : {None}, last_modified : {None}, owner : {None},
     tags : {<<>>, <<"raw", "bronze">>}]

ProducerKeys == {asset_key(a) : a \in ProducerAssets}

Range(q) == {q[i] : i \in 1..Len(q)}

RECURSIVE SeqsUpTo(_, _)
SeqsUpTo(S, n) ==
    IF n = 0 THEN {<<>>}
    ELSE LET shorter == SeqsUpTo(S, n - 1)
         IN  shorter \cup {Append(q, x) : q \in {p \in shorter : Len(p) = n - 1}, x \in S}

Logic == {"logic"}

Dates == {"2026-01-01T00:00:00"}

Authors == {"silver.load_silver"}

DataTransformation ==
    [source_assets : SeqsUpTo(Keys, MaxLogSize - 1), target_asset : Keys,
     transformation_type : TransformationTypes, transformation_logic : Logic,
     created_date : Dates, created_by : Authors]

\* the type initialize_warehouse_lineage gives a transformation: an etl has one
\* source, a view several
TypeFor(sources) == IF Len(sources) > 1 THEN "view" ELSE "etl"

ProducerTransformations ==
    {t \in DataTransformation :
        /\ Range(t.source_assets) \cup {t.target_asset} \subseteq ProducerKeys
        /\ t.transformation_type = TypeFor(t.source_assets)}

RECURSIVE LogSize(_)
LogSize(log) ==
    IF log = <<>> THEN 0 ELSE 1 + Len(Head(log).source_assets) + LogSize(Tail(log))

(***************************************************************************)
(* A Python dict that keeps insertion order: a sequence of [k, v] entries  *)
(* with distinct keys.                                                     *)
(***************************************************************************)
DictKeys(d) == {d[i].k : i \in 1..Len(d)}

\* dict[key], key being present
DictGet(d, key) == d[CHOOSE i \in 1..Len(d) : d[i].k = key].v

DictSet(d, key, value) ==
    IF key \in DictKeys(d)
    THEN [i \in 1..Len(d) |-> IF d[i].k = key THEN [k |-> key, v |-> value] ELSE d[i]]
    ELSE Append(d, [k |-> key, v |-> value])

\* dict[key] = set() when key is not in dict
SetDefault(map, key) == IF key \in DOMAIN map THEN map ELSE map @@ (key :> {})

\* dict[key].add(x), key being present
AddTo(map, key, x) == [map EXCEPT ![key] = @ \cup {x}]

\* dict.get(key, set())
GetOrEmpty(map, key) == IF key \in DOMAIN map THEN map[key] ELSE {}

\* raised: the exception the call propagated; logged: the one it caught and logged
Call(op, arg, raised, logged) ==
    [op |-> op, arg |-> arg, raised |-> raised, logged |-> logged]

(***************************************************************************)
(* The state after __init__ with no lineage file on disk                   *)
(***************************************************************************)
Init ==
    /\ assets = <<>>
    /\ transformations = <<>>
    /\ dependencies = EmptyMap
    /\ downstream = EmptyMap
    /\ lineage_file = NoFile
    /\ last_call = Call("__init__", None, None, None)
    /\ result = NoResult

(***************************************************************************)
(* The tracker's fields as one record, and the actions' common shape       *)
(***************************************************************************)
Tracker(registry, log, deps, down) ==
    [assets |-> registry, transformations |-> log, dependencies |-> deps,
     downstream |-> down]

Self == Tracker(assets, transformations, dependencies, downstream)

NewTracker == Tracker(<<>>, <<>>, EmptyMap, EmptyMap)

Becomes(st) ==
    /\ assets' = st.assets
    /\ transformations' = st.transformations
    /\ dependencies' = st.dependencies
    /\ downstream' = st.downstream

(***************************************************************************)
(* add_asset                                                               *)
(***************************************************************************)
\* a merge in place of an overwrite: a field left at None keeps the stored value
AddAssetMerges(st, asset) ==
    LET key == asset_key(asset)
        stored == DictGet(st.assets, key)
        merged == IF key \in DictKeys(st.assets) /\ asset.description = None
                  THEN [asset EXCEPT !.description = stored.description]
                  ELSE asset
    IN  Tracker(DictSet(st.assets, key, merged), st.transformations,
                SetDefault(st.dependencies, key), SetDefault(st.downstream, key))

\* the two sets of the key made empty whether the key is known or not
AddAssetResetsEdges(st, asset) ==
    LET key == asset_key(asset)
    IN  Tracker(DictSet(st.assets, key, asset), st.transformations,
                (key :> {}) @@ st.dependencies, (key :> {}) @@ st.downstream)

AddAsset(st, asset) ==
    LET key == asset_key(asset)
    IN  Tracker(DictSet(st.assets, key, asset), st.transformations,
                SetDefault(st.dependencies, key), SetDefault(st.downstream, key))

add_asset(asset) ==
    /\ Becomes(AddAsset(Self, asset))
    /\ last_call' = Call("add_asset", asset, None, None)
    /\ result' = NoResult
    /\ UNCHANGED lineage_file

(***************************************************************************)
(* add_transformation                                                      *)
(***************************************************************************)
\* a loop that records the upstream edge and not the downstream one
AddSourceForgetsDownstream(st, source, target) ==
    [st EXCEPT !.dependencies = AddTo(@, target, source),
               !.downstream = SetDefault(@, source)]

\* one turn of the loop over transformation.source_assets
AddSource(st, source, target) ==
    [st EXCEPT !.dependencies = AddTo(@, target, source),
               !.downstream = AddTo(SetDefault(@, source), source, target)]

RECURSIVE AddSources(_, _, _, _)
AddSources(st, sources, target, i) ==
    IF i > Len(sources) THEN st
    ELSE AddSources(AddSource(st, sources[i], target), sources, target, i + 1)

\* the edges inserted, the transformation not appended to the log
AddTransformationNotLogged(st, t) ==
    AddSources([st EXCEPT !.dependencies = SetDefault(@, t.target_asset)],
               t.source_assets, t.target_asset, 1)

\* dependencies[target] = set() in the place of the membership test
AddTransformationResetsTarget(st, t) ==
    AddSources([st EXCEPT !.transformations = Append(@, t),
                          !.dependencies = (t.target_asset :> {}) @@ @],
               t.source_assets, t.target_asset, 1)

AddTransformation(st, t) ==
    AddSources([st EXCEPT !.transformations = Append(@, t),
                          !.dependencies = SetDefault(@, t.target_asset)],
               t.source_assets, t.target_asset, 1)

add_transformation(t) ==
    /\ LogSize(Append(transformations, t)) <= MaxLogSize
    /\ Becomes(AddTransformation(Self, t))
    /\ last_call' = Call("add_transformation", t, None, None)
    /\ result' = NoResult
    /\ UNCHANGED lineage_file

(***************************************************************************)
(* _rebuild_dependency_graphs                                              *)
(***************************************************************************)
\* one turn of the inner loop: dependencies[target].add(source), then
\* downstream[source].add(target); a missing key raises KeyError there
RebuildEdge(g, source, target) ==
    IF target \notin DOMAIN g.dependencies
    THEN [g EXCEPT !.raised = "KeyError"]
    ELSE LET deps == AddTo(g.dependencies, target, source)
         IN  IF source \notin DOMAIN g.downstream
             THEN [dependencies |-> deps, downstream |-> g.downstream,
                   raised |-> "KeyError"]
             ELSE [dependencies |-> deps,
                   downstream |-> AddTo(g.downstream, source, target),
                   raised |-> None]

\* the loops over the log and over each source list, left at the first exception
RECURSIVE RebuildFrom(_, _, _, _)
RebuildFrom(g, log, i, j) ==
    IF g.raised # None \/ i > Len(log) THEN g
    ELSE IF j > Len(log[i].source_assets) THEN RebuildFrom(g, log, i + 1, 1)
    ELSE RebuildFrom(RebuildEdge(g, log[i].source_assets[j], log[i].target_asset),
                     log, i, j + 1)

\* the maps not cleared: an entry per registered asset that has none, then the
\* log replayed over what the maps held
RebuildGraphKeepsEntries(registry, log) ==
    RebuildFrom([dependencies |-> [k \in DOMAIN dependencies \cup DictKeys(registry) |->
                                      GetOrEmpty(dependencies, k)],
                 downstream |-> [k \in DOMAIN downstream \cup DictKeys(registry) |->
                                    GetOrEmpty(downstream, k)],
                 raised |-> None],
                log, 1, 1)

\* both maps cleared, an empty entry per registered asset, then the log replayed
RebuildGraph(registry, log) ==
    RebuildFrom([dependencies |-> [k \in DictKeys(registry) |-> {}],
                 downstream |-> [k \in DictKeys(registry) |-> {}],
                 raised |-> None],
                log, 1, 1)

rebuild_dependency_graphs ==
    /\ LET g == RebuildGraph(assets, transformations)
       IN  /\ Becomes(Tracker(assets, transformations, g.dependencies, g.downstream))
           /\ last_call' = Call("_rebuild_dependency_graphs", None, g.raised, None)
    /\ result' = NoResult
    /\ UNCHANGED lineage_file

(***************************************************************************)
(* The lineage file: a JSON document. A JSON value is null, a string or an *)
(* array; a JSON object is a record of JSON values.                        *)
(***************************************************************************)
JsonNull == [json |-> "null"]

\* json.dump of a str
JsonOfStr(s) == [json |-> "string", value |-> s]

\* json.dump of an Optional[str]
JsonOfOptional(s) == IF s = None THEN JsonNull ELSE JsonOfStr(s)

\* an array written back to front
JsonOfListReversed(q) ==
    [json |-> "array", items |-> [i \in 1..Len(q) |-> JsonOfStr(q[Len(q) + 1 - i])]]

\* json.dump of a List[str]
JsonOfList(q) == [json |-> "array", items |-> [i \in 1..Len(q) |-> JsonOfStr(q[i])]]

\* asdict(asset), as json.dump writes it
AssetData(asset) ==
    [name |-> JsonOfStr(asset.name), type |-> JsonOfStr(asset.type),
     schema |-> JsonOfStr(asset.schema),
     description |-> JsonOfOptional(asset.description),
     created_date |-> JsonOfOptional(asset.created_date),
     last_modified |-> JsonOfOptional(asset.last_modified),
     owner |-> JsonOfOptional(asset.owner), tags |-> JsonOfList(asset.tags)]

\* asdict(transformation), as json.dump writes it
TransformData(t) ==
    [source_assets |-> JsonOfList(t.source_assets),
     target_asset |-> JsonOfStr(t.target_asset),
     transformation_type |-> JsonOfStr(t.transformation_type),
     transformation_logic |-> JsonOfStr(t.transformation_logic),
     created_date |-> JsonOfStr(t.created_date),
     created_by |-> JsonOfStr(t.created_by)]

\* the document save_lineage writes for a registry and a log
LineageData(registry, log) ==
    [exists |-> TRUE, parses |-> TRUE,
     assets |-> [i \in 1..Len(registry) |->
                    [k |-> registry[i].k, v |-> AssetData(registry[i].v)]],
     transformations |-> [i \in 1..Len(log) |-> TransformData(log[i])],
     last_updated |-> CHOOSE d \in Dates : TRUE]

\* json.load of a value
RECURSIVE PythonOf(_)
PythonOf(v) ==
    CASE v.json = "null" -> None
      [] v.json = "string" -> v.value
      [] v.json = "array" -> [i \in 1..Len(v.items) |-> PythonOf(v.items[i])]

AssetFields ==
    {"name", "type", "schema", "description", "created_date", "last_modified",
     "owner", "tags"}

RequiredAssetFields == {"name", "type", "schema"}

TransformationFields ==
    {"source_assets", "target_asset", "transformation_type", "transformation_logic",
     "created_date", "created_by"}

\* DataAsset(**asset_data) raises TypeError for a missing or an unexpected argument
AssetArguments(asset_data) ==
    /\ RequiredAssetFields \subseteq DOMAIN asset_data
    /\ DOMAIN asset_data \subseteq AssetFields

\* DataTransformation(**transform_data) likewise; it has no optional argument
TransformationArguments(transform_data) == DOMAIN transform_data = TransformationFields

\* an argument of DataAsset that has a default
Optional(asset_data, field) ==
    IF field \in DOMAIN asset_data THEN PythonOf(asset_data[field]) ELSE None

\* DataAsset(**asset_data) with __post_init__: tags of None become the empty list
NewDataAsset(asset_data) ==
    [name |-> PythonOf(asset_data.name), type |-> PythonOf(asset_data.type),
     schema |-> PythonOf(asset_data.schema),
     description |-> Optional(asset_data, "description"),
     created_date |-> Optional(asset_data, "created_date"),
     last_modified |-> Optional(asset_data, "last_modified"),
     owner |-> Optional(asset_data, "owner"),
     tags |-> IF "tags" \notin DOMAIN asset_data \/ asset_data.tags.json = "null"
              THEN <<>> ELSE PythonOf(asset_data.tags)]

NewDataTransformation(transform_data) ==
    [source_assets |-> PythonOf(transform_data.source_assets),
     target_asset |-> PythonOf(transform_data.target_asset),
     transformation_type |-> PythonOf(transform_data.transformation_type),
     transformation_logic |-> PythonOf(transform_data.transformation_logic),
     created_date |-> PythonOf(transform_data.created_date),
     created_by |-> PythonOf(transform_data.created_by)]

(***************************************************************************)
(* save_lineage and load_lineage                                           *)
(***************************************************************************)
save_lineage ==
    /\ lineage_file' = LineageData(assets, transformations)
    /\ last_call' = Call("save_lineage", None, None, None)
    /\ result' = NoResult
    /\ UNCHANGED <<assets, transformations, dependencies, downstream>>

\* self.assets[asset_key] = DataAsset(**asset_data) for every entry of the
\* document, up to the first entry DataAsset rejects
RECURSIVE LoadAssets(_, _, _)
LoadAssets(registry, entries, i) ==
    IF i > Len(entries) THEN [assets |-> registry, raised |-> None]
    ELSE IF ~AssetArguments(entries[i].v)
    THEN [assets |-> registry, raised |-> "TypeError"]
    ELSE LoadAssets(DictSet(registry, entries[i].k, NewDataAsset(entries[i].v)),
                    entries, i + 1)

\* self.transformations.append(DataTransformation(**transform_data)) likewise
RECURSIVE LoadTransformations(_, _, _)
LoadTransformations(log, entries, i) ==
    IF i > Len(entries) THEN [transformations |-> log, raised |-> None]
    ELSE IF ~TransformationArguments(entries[i])
    THEN [transformations |-> log, raised |-> "TypeError"]
    ELSE LoadTransformations(Append(log, NewDataTransformation(entries[i])),
                             entries, i + 1)

\* a load that an exception undoes
LoadLineageRollsBack(st, file) ==
    IF ~file.exists THEN [tracker |-> st, logged |-> None]
    ELSE IF ~file.parses THEN [tracker |-> st, logged |-> "JSONDecodeError"]
    ELSE LET a == LoadAssets(st.assets, file.assets, 1)
             t == LoadTransformations(st.transformations, file.transformations, 1)
             g == RebuildGraph(a.assets, t.transformations)
         IN  IF a.raised # None THEN [tracker |-> st, logged |-> a.raised]
             ELSE IF t.raised # None THEN [tracker |-> st, logged |-> t.raised]
             ELSE [tracker |-> Tracker(a.assets, t.transformations,
                                       g.dependencies, g.downstream),
                   logged |-> g.raised]

\* a load that fails when there is no file
LoadLineageNeedsFile(st, file) ==
    IF ~file.exists THEN [tracker |-> st, logged |-> "FileNotFoundError"]
    ELSE IF ~file.parses THEN [tracker |-> st, logged |-> "JSONDecodeError"]
    ELSE LET a == LoadAssets(st.assets, file.assets, 1)
             t == LoadTransformations(st.transformations, file.transformations, 1)
             g == RebuildGraph(a.assets, t.transformations)
         IN  IF a.raised # None
             THEN [tracker |-> [st EXCEPT !.assets = a.assets], logged |-> a.raised]
             ELSE IF t.raised # None
             THEN [tracker |-> [st EXCEPT !.assets = a.assets,
                                          !.transformations = t.transformations],
                   logged |-> t.raised]
             ELSE [tracker |-> Tracker(a.assets, t.transformations,
                                       g.dependencies, g.downstream),
                   logged |-> g.raised]

\* a load that puts the log of the document in the place of the tracker's log
LoadLineageReplacesLog(st, file) ==
    IF ~file.exists THEN [tracker |-> st, logged |-> None]
    ELSE IF ~file.parses THEN [tracker |-> st, logged |-> "JSONDecodeError"]
    ELSE LET a == LoadAssets(st.assets, file.assets, 1)
             t == LoadTransformations(<<>>, file.transformations, 1)
             g == RebuildGraph(a.assets, t.transformations)
         IN  IF a.raised # None
             THEN [tracker |-> [st EXCEPT !.assets = a.assets], logged |-> a.raised]
             ELSE IF t.raised # None
             THEN [tracker |-> [st EXCEPT !.assets = a.assets,
                                          !.transformations = t.transformations],
                   logged |-> t.raised]
             ELSE [tracker |-> Tracker(a.assets, t.transformations,
                                       g.dependencies, g.downstream),
                   logged |-> g.raised]

\* the tracker after load_lineage, with the exception it caught and logged: the
\* try block is left at the first exception, with what the statements before it
\* stored
LoadLineage(st, file) ==
    IF ~file.exists THEN [tracker |-> st, logged |-> None]
    ELSE IF ~file.parses THEN [tracker |-> st, logged |-> "JSONDecodeError"]
    ELSE LET a == LoadAssets(st.assets, file.assets, 1)
             t == LoadTransformations(st.transformations, file.transformations, 1)
             g == RebuildGraph(a.assets, t.transformations)
         IN  IF a.raised # None
             THEN [tracker |-> [st EXCEPT !.assets = a.assets], logged |-> a.raised]
             ELSE IF t.raised # None
             THEN [tracker |-> [st EXCEPT !.assets = a.assets,
                                          !.transformations = t.transformations],
                   logged |-> t.raised]
             ELSE [tracker |-> Tracker(a.assets, t.transformations,
                                       g.dependencies, g.downstream),
                   logged |-> g.raised]

\* the log load_lineage leaves
LoadedLog(st, file) == LoadLineage(st, file).tracker.transformations

load_lineage ==
    /\ LogSize(LoadedLog(Self, lineage_file)) <= MaxLogSize
    /\ LET s == LoadLineage(Self, lineage_file)
       IN  /\ Becomes(s.tracker)
           /\ last_call' = Call("load_lineage", None, None, s.logged)
    /\ result' = NoResult
    /\ UNCHANGED lineage_file

\* DataLineageTracker(): a new tracker on the same lineage file
new_tracker ==
    /\ LET s == LoadLineage(NewTracker, lineage_file)
       IN  /\ Becomes(s.tracker)
           /\ last_call' = Call("__init__", None, None, s.logged)
    /\ result' = NoResult
    /\ UNCHANGED lineage_file

(***************************************************************************)
(* The graph queries. A call returns [raised, value]; a chain of nested    *)
(* calls longer than RecursionLimit raises RecursionError, as the          *)
(* interpreter does.                                                       *)
(***************************************************************************)
Returned(value) == [raised |-> None, value |-> value]

RecursionError == [raised |-> "RecursionError", value |-> {}]

\* the outcome of a loop over recursive calls that merges their results
Merged(direct, calls) ==
    IF \E c \in calls : c.raised # None THEN RecursionError
    ELSE Returned(direct \cup UNION {c.value : c \in calls})

\* the direct dependencies alone, the recursive step left out
get_upstream_direct(asset, visited, depth) ==
    IF asset \in visited THEN Returned({})
    ELSE Returned(GetOrEmpty(dependencies, asset))

RECURSIVE get_upstream_dependencies(_, _, _)
\* the asset the call was made for taken out of what it returns
get_upstream_excludes_asset(asset, visited, depth) ==
    IF depth > RecursionLimit THEN RecursionError
    ELSE IF asset \in visited THEN Returned({})
    ELSE LET direct_deps == GetOrEmpty(dependencies, asset)
             merged == Merged(direct_deps,
                           {get_upstream_dependencies(dep, visited \cup {asset}, depth + 1) :
                               dep \in direct_deps})
         IN  [merged EXCEPT !.value = @ \ {asset}]

get_upstream_dependencies(asset, visited, depth) ==
    IF depth > RecursionLimit THEN RecursionError
    ELSE IF asset \in visited THEN Returned({})
    ELSE LET direct_deps == GetOrEmpty(dependencies, asset)
         IN  Merged(direct_deps,
                    {get_upstream_dependencies(dep, visited \cup {asset}, depth + 1) :
                        dep \in direct_deps})

RECURSIVE get_downstream_impact(_, _, _)
\* self.downstream[asset] in place of self.downstream.get(asset, set())
get_downstream_subscripts(asset, visited, depth) ==
    IF depth > RecursionLimit THEN RecursionError
    ELSE IF asset \in visited THEN Returned({})
    ELSE IF asset \notin DOMAIN downstream THEN [raised |-> "KeyError", value |-> {}]
    ELSE LET direct_downstream == downstream[asset]
         IN  Merged(direct_downstream,
                    {get_downstream_impact(ds, visited \cup {asset}, depth + 1) :
                        ds \in direct_downstream})

\* the keys already on the current path left out of the result
get_downstream_omits_visited(asset, visited, depth) ==
    IF depth > RecursionLimit THEN RecursionError
    ELSE IF asset \in visited THEN Returned({})
    ELSE LET direct_downstream == GetOrEmpty(downstream, asset)
         IN  Merged(direct_downstream \ (visited \cup {asset}),
                    {get_downstream_impact(ds, visited \cup {asset}, depth + 1) :
                        ds \in direct_downstream})

get_downstream_impact(asset, visited, depth) ==
    IF depth > RecursionLimit THEN RecursionError
    ELSE IF asset \in visited THEN Returned({})
    ELSE LET direct_downstream == GetOrEmpty(downstream, asset)
         IN  Merged(direct_downstream,
                    {get_downstream_impact(ds, visited \cup {asset}, depth + 1) :
                        ds \in direct_downstream})

\* find_path: the set of outcomes the iteration order of the downstream set allows.
\* The value <<>> stands for None: a path found is never empty, and both callers
\* test the result for truth only.
RECURSIVE find_path(_, _, _, _, _)
\* the search without its test of the visited set
find_path_unguarded(current, target, path, visited, depth) ==
    IF depth > RecursionLimit THEN {[raised |-> "RecursionError", value |-> <<>>]}
    ELSE IF current = target THEN {Returned(Append(path, current))}
    ELSE LET calls == {find_path(ds, target, Append(path, current),
                                 visited \cup {current}, depth + 1) :
                          ds \in GetOrEmpty(downstream, current)}
             ended == {o \in UNION calls : o.raised # None \/ o.value # <<>>}
         IN  ended \cup (IF \A c \in calls : Returned(<<>>) \in c
                         THEN {Returned(<<>>)} ELSE {})

\* the search handing path, not path + [current], to the recursive call
find_path_drops_current(current, target, path, visited, depth) ==
    IF depth > RecursionLimit THEN {[raised |-> "RecursionError", value |-> <<>>]}
    ELSE IF current = target THEN {Returned(Append(path, current))}
    ELSE IF current \in visited THEN {Returned(<<>>)}
    ELSE LET calls == {find_path(ds, target, path, visited \cup {current}, depth + 1) :
                          ds \in GetOrEmpty(downstream, current)}
             ended == {o \in UNION calls : o.raised # None \/ o.value # <<>>}
         IN  ended \cup (IF \A c \in calls : Returned(<<>>) \in c
                         THEN {Returned(<<>>)} ELSE {})

find_path(current, target, path, visited, depth) ==
    IF depth > RecursionLimit THEN {[raised |-> "RecursionError", value |-> <<>>]}
    ELSE IF current = target THEN {Returned(Append(path, current))}
    ELSE IF current \in visited THEN {Returned(<<>>)}
    ELSE LET calls == {find_path(ds, target, Append(path, current),
                                 visited \cup {current}, depth + 1) :
                          ds \in GetOrEmpty(downstream, current)}
             ended == {o \in UNION calls : o.raised # None \/ o.value # <<>>}
         IN  ended \cup (IF \A c \in calls : Returned(<<>>) \in c
                         THEN {Returned(<<>>)} ELSE {})

get_lineage_path(source, target) == find_path(source, target, <<>>, {}, 1)

(***************************************************************************)
(* analyze_impact                                                          *)
(***************************************************************************)
HighAssets == 10

HighTransformations == 5

MediumAssets == 5

MediumTransformations == 2

\* the inner loop over self.transformations for one changed asset
RECURSIVE AffectedTransformations(_, _, _)
AffectedTransformations(asset, log, i) ==
    IF i > Len(log) THEN <<>>
    ELSE (IF asset \in Range(log[i].source_assets)
          THEN <<[transformation |-> log[i].target_asset,
                  type |-> log[i].transformation_type,
                  affected_source |-> asset]>>
          ELSE <<>>) \o AffectedTransformations(asset, log, i + 1)

RECURSIVE ImpactLoop(_, _, _)
\* a loop that takes each changed asset out of the affected ones
ImpactLoopExcludesChanged(changed_assets, i, acc) ==
    IF acc.raised # None \/ i > Len(changed_assets) THEN acc
    ELSE LET ds == get_downstream_impact(changed_assets[i], {}, 1)
         IN  IF ds.raised # None THEN [acc EXCEPT !.raised = ds.raised]
             ELSE ImpactLoop(changed_assets, i + 1,
                    [acc EXCEPT
                       !.affected_assets = (@ \cup ds.value) \ {changed_assets[i]},
                       !.affected_transformations =
                           @ \o AffectedTransformations(changed_assets[i],
                                                        transformations, 1)])

\* the loop over changed_assets
ImpactLoop(changed_assets, i, acc) ==
    IF acc.raised # None \/ i > Len(changed_assets) THEN acc
    ELSE LET ds == get_downstream_impact(changed_assets[i], {}, 1)
         IN  IF ds.raised # None THEN [acc EXCEPT !.raised = ds.raised]
             ELSE ImpactLoop(changed_assets, i + 1,
                    [acc EXCEPT
                       !.affected_assets = @ \cup ds.value,
                       !.affected_transformations =
                           @ \o AffectedTransformations(changed_assets[i],
                                                        transformations, 1)])

\* the thresholds compared with >= in place of >
RiskLevelInclusive(affected_count, transformation_count) ==
    IF affected_count >= HighAssets \/ transformation_count >= HighTransformations
    THEN "HIGH"
    ELSE IF affected_count >= MediumAssets \/ transformation_count >= MediumTransformations
    THEN "MEDIUM"
    ELSE "LOW"

\* the level an analysis starts from set to MEDIUM
RiskLevelStartsMedium(affected_count, transformation_count) ==
    IF affected_count > HighAssets \/ transformation_count > HighTransformations
    THEN "HIGH"
    ELSE "MEDIUM"

\* the first branch taken sets the level and, with Recommendations, the list
RiskLevel(affected_count, transformation_count) ==
    IF affected_count > HighAssets \/ transformation_count > HighTransformations
    THEN "HIGH"
    ELSE IF affected_count > MediumAssets \/ transformation_count > MediumTransformations
    THEN "MEDIUM"
    ELSE "LOW"

\* two independent tests in place of if / elif: a HIGH analysis gets the MEDIUM
\* recommendation too
RecommendationsOfBothTiers(risk_level) ==
    (IF risk_level = "HIGH"
     THEN <<"Consider implementing changes in stages",
            "Run comprehensive testing before deployment">>
     ELSE <<>>)
    \o (IF risk_level \in {"HIGH", "MEDIUM"}
        THEN <<"Test affected downstream assets">> ELSE <<>>)

Recommendations(risk_level) ==
    IF risk_level = "HIGH"
    THEN <<"Consider implementing changes in stages",
           "Run comprehensive testing before deployment">>
    ELSE IF risk_level = "MEDIUM" THEN <<"Test affected downstream assets">>
    ELSE <<>>

\* every order the elements of S can be listed in
RECURSIVE OrdersOf(_)
OrdersOf(S) ==
    IF S = {} THEN {<<>>}
    ELSE UNION {{<<x>> \o q : q \in OrdersOf(S \ {x})} : x \in S}

\* one order of the elements of S, and the same order backwards
RECURSIVE OneOrder(_)
OneOrder(S) ==
    IF S = {} THEN <<>>
    ELSE LET x == CHOOSE y \in S : TRUE IN <<x>> \o OneOrder(S \ {x})

Reversed(q) == [i \in 1..Len(q) |-> q[Len(q) + 1 - i]]

\* list(a_set): the elements once each, in an order the set decides. Every order
\* is enumerated for a set of at most MaxPermuted elements, two opposite orders
\* for a larger one.
ListOfSet(S) ==
    IF Cardinality(S) <= MaxPermuted THEN OrdersOf(S)
    ELSE {OneOrder(S), Reversed(OneOrder(S))}

\* the set of outcomes of analyze_impact(changed_assets)
analyze_impact(changed_assets) ==
    LET acc == ImpactLoop(changed_assets, 1,
                   [raised |-> None, affected_assets |-> {},
                    affected_transformations |-> <<>>])
        risk == RiskLevel(Cardinality(acc.affected_assets),
                          Len(acc.affected_transformations))
    IN  IF acc.raised # None THEN {[raised |-> acc.raised, value |-> <<>>]}
        ELSE {Returned([changed_assets |-> changed_assets,
                        affected_assets |-> listed,
                        affected_transformations |-> acc.affected_transformations,
                        risk_level |-> risk,
                        recommendations |-> Recommendations(risk)]) :
                 listed \in ListOfSet(acc.affected_assets)}

(***************************************************************************)
(* The lineage diagrams. A text is the sequence of its lines, which        *)
(* '\n'.join makes one string of; a line is the sequence of the pieces its *)
(* f-string puts together, the characters of a key each a piece.           *)
(***************************************************************************)
\* the schema names the diagrams give a style to: bronze, silver, gold
Bronze == <<"b">>

Silver == <<"s">>

Gold == <<"g">>

\* str.replace(old, new) on a string of characters
Replace(s, old, new) == [i \in 1..Len(s) |-> IF s[i] = old THEN new ELSE s[i]]

\* an identifier that keeps the '-' of the key
NodeIdKeepsHyphen(key) == Replace(key, ".", "_")

\* asset_key.replace('.', '_').replace('-', '_')
NodeId(key) == Replace(Replace(key, ".", "_"), "-", "_")

\* f"{asset.name}\\n({asset.type})"
NodeLabel(asset) == asset.name \o <<"\\n(", asset.type, ")">>

MermaidNode(key, asset) ==
    <<"    ">> \o NodeId(key) \o <<"[\"">> \o NodeLabel(asset) \o <<"\"]">>
    \o (IF asset.schema = Bronze THEN <<":::bronze">>
        ELSE IF asset.schema = Silver THEN <<":::silver">>
        ELSE IF asset.schema = Gold THEN <<":::gold">>
        ELSE <<>>)

MermaidEdge(source, target) == <<"    ">> \o NodeId(source) \o <<" --> ">> \o NodeId(target)

DotNode(key, asset) ==
    <<"    ">> \o NodeId(key) \o <<" [label=\"">> \o NodeLabel(asset)
    \o <<"\", fillcolor=\"",
         IF asset.schema = Bronze THEN "#CD7F32"
         ELSE IF asset.schema = Silver THEN "#C0C0C0"
         ELSE IF asset.schema = Gold THEN "#FFD700"
         ELSE "#CCCCCC",
         "\", style=filled];">>

DotEdge(source, target) ==
    <<"    ">> \o NodeId(source) \o <<" -> ">> \o NodeId(target) \o <<";">>

\* the pairs of the first transformation only
PairsOfFirst(log) ==
    IF log = <<>> THEN <<>>
    ELSE [j \in 1..Len(Head(log).source_assets) |->
             <<Head(log).source_assets[j], Head(log).target_asset>>]

\* the loops over self.transformations and over each source list: the
\* (source, target) pairs in the order the loops meet them
RECURSIVE EdgePairs(_)
EdgePairs(log) ==
    IF log = <<>> THEN <<>>
    ELSE [j \in 1..Len(Head(log).source_assets) |->
             <<Head(log).source_assets[j], Head(log).target_asset>>]
         \o EdgePairs(Tail(log))

_generate_mermaid_diagram ==
    LET pairs == EdgePairs(transformations)
    IN
    <<<<"graph TD">>>>
    \o [i \in 1..Len(assets) |-> MermaidNode(assets[i].k, assets[i].v)]
    \o [i \in 1..Len(pairs) |-> MermaidEdge(pairs[i][1], pairs[i][2])]
    \o << <<>>,
          <<"    classDef bronze fill:#cd7f32,stroke:#8B4513,stroke-width:2px,color:#fff">>,
          <<"    classDef silver fill:#c0c0c0,stroke:#808080,stroke-width:2px,color:#000">>,
          <<"    classDef gold fill:#ffd700,stroke:#daa520,stroke-width:2px,color:#000">> >>

_generate_dot_diagram ==
    <<<<"digraph DataLineage {">>, <<"    rankdir=LR;">>, <<"    node [shape=box];">>>>
    \o [i \in 1..Len(assets) |-> DotNode(assets[i].k, assets[i].v)]
    \o (LET pairs == EdgePairs(transformations)
        IN  [i \in 1..Len(pairs) |-> DotEdge(pairs[i][1], pairs[i][2])])
    \o <<<<"}">>>>

\* any format answered with the mermaid diagram
generate_lineage_diagram_falls_back(output_format) ==
    IF output_format = "dot" THEN Returned(_generate_dot_diagram)
    ELSE Returned(_generate_mermaid_diagram)

generate_lineage_diagram(output_format) ==
    IF output_format = "mermaid" THEN Returned(_generate_mermaid_diagram)
    ELSE IF output_format = "dot" THEN Returned(_generate_dot_diagram)
    ELSE [raised |-> "ValueError", value |-> None]

(***************************************************************************)
(* The queries as operations of the tracker                                *)
(***************************************************************************)
\* One query is put to each tracker: a query changes no field of the tracker, so
\* a second query would be put to the same tracker as the first.
Unanswered == result = NoResult

\* a query that leaves an entry for its argument in dependencies, as a
\* subscript of a defaultdict would
AnswerRegistersKey(op, args, outcome) ==
    /\ result' = [op |-> op, args |-> args, raised |-> outcome.raised,
                  value |-> outcome.value]
    /\ dependencies' = IF args = <<>> THEN dependencies ELSE SetDefault(dependencies, args[1])
    /\ UNCHANGED <<assets, transformations, downstream, lineage_file, last_call>>

Answer(op, args, outcome) ==
    /\ result' = [op |-> op, args |-> args, raised |-> outcome.raised,
                  value |-> outcome.value]
    /\ UNCHANGED <<assets, transformations, dependencies, downstream, lineage_file,
                   last_call>>

query_upstream_dependencies(asset) ==
    /\ Unanswered
    /\ \E outcome \in {get_upstream_dependencies(asset, {}, 1)} :
           Answer("get_upstream_dependencies", <<asset>>, outcome)

query_downstream_impact(asset) ==
    /\ Unanswered
    /\ \E outcome \in {get_downstream_impact(asset, {}, 1)} :
           Answer("get_downstream_impact", <<asset>>, outcome)

query_lineage_path(source, target) ==
    /\ Unanswered
    /\ \E outcome \in get_lineage_path(source, target) :
           Answer("get_lineage_path", <<source, target>>, outcome)

query_analyze_impact(changed_assets) ==
    /\ Unanswered
    /\ \E outcome \in analyze_impact(changed_assets) :
           Answer("analyze_impact", <<changed_assets>>, outcome)

query_lineage_diagram(output_format) ==
    /\ Unanswered
    /\ \E outcome \in {generate_lineage_diagram(output_format)} :
           Answer("generate_lineage_diagram", <<output_format>>, outcome)

(***************************************************************************)
(* The trackers the queries are put to: every graph of at most MaxEdges    *)
(* edges over Keys, declared the way initialize_warehouse_lineage declares *)
(* the warehouse (the assets first or not at all, then one transformation  *)
(* per target, an etl for one source and a view for several).              *)
(***************************************************************************)
KeyOrder == CHOOSE q \in ListOfSet(Keys) : TRUE

\* the elements of S as a sequence, in the order of `order`
RECURSIVE Listed(_, _)
Listed(S, order) ==
    IF order = <<>> THEN <<>>
    ELSE (IF Head(order) \in S THEN <<Head(order)>> ELSE <<>>) \o Listed(S, Tail(order))

SourcesOf(edges, target) == {e[1] : e \in {d \in edges : d[2] = target}}

RECURSIVE DeclaredLog(_, _)
DeclaredLog(edges, targets) ==
    IF targets = <<>> THEN <<>>
    ELSE LET sources == Listed(SourcesOf(edges, Head(targets)), KeyOrder)
         IN  (IF sources = <<>> THEN <<>>
              ELSE <<[source_assets |-> sources, target_asset |-> Head(targets),
                      transformation_type |-> TypeFor(sources),
                      transformation_logic |-> CHOOSE x \in Logic : TRUE,
                      created_date |-> CHOOSE x \in Dates : TRUE,
                      created_by |-> CHOOSE x \in Authors : TRUE]>>)
             \o DeclaredLog(edges, Tail(targets))

\* a loop of calls: each call is made on the tracker the calls before it left,
\* which the test of Done computes before the loop goes on
Done(st, calls) == calls = <<>> \/ DOMAIN st = {}

RECURSIVE AddAssets(_, _)
AddAssets(st, declared) ==
    IF Done(st, declared) THEN st
    ELSE AddAssets(AddAsset(st, Head(declared)), Tail(declared))

RECURSIVE AddTransformations(_, _)
AddTransformations(st, log) ==
    IF Done(st, log) THEN st
    ELSE AddTransformations(AddTransformation(st, Head(log)), Tail(log))

AssetOf(key) == CHOOSE a \in DataAsset : asset_key(a) = key

Declared(registered, edges) ==
    AddTransformations(
        AddAssets(NewTracker, [i \in 1..Len(registered) |-> AssetOf(registered[i])]),
        DeclaredLog(edges, KeyOrder))

EdgeSets == {E \in SUBSET (Keys \X Keys) : Cardinality(E) <= MaxEdges}

InitQuery ==
    /\ \E edges \in EdgeSets, registered \in {<<>>, KeyOrder} :
           LET st == Declared(registered, edges)
           IN  /\ assets = st.assets
               /\ transformations = st.transformations
               /\ dependencies = st.dependencies
               /\ downstream = st.downstream
    /\ lineage_file = NoFile
    /\ last_call = Call("declared", None, None, None)
    /\ result = NoResult

NextQuery ==
    \/ \E asset \in Keys : query_upstream_dependencies(asset)
    \/ \E asset \in Keys : query_downstream_impact(asset)
    \/ \E source \in Keys, target \in Keys : query_lineage_path(source, target)
    \/ \E changed_assets \in SeqsUpTo(Keys, MaxChanged) :
           query_analyze_impact(changed_assets)

SpecQuery == InitQuery /\ [][NextQuery]_vars

Next ==
    \/ \E asset \in ProducerAssets : add_asset(asset)
    \/ \E t \in ProducerTransformations : add_transformation(t)
    \/ rebuild_dependency_graphs
    \/ save_lineage
    \/ load_lineage
    \/ new_tracker

Spec == Init /\ [][Next]_vars

\* the producer interface alone: add_asset and add_transformation
NextProducer ==
    \/ \E asset \in ProducerAssets : add_asset(asset)
    \/ \E t \in ProducerTransformations : add_transformation(t)

SpecProducer == Init /\ [][NextProducer]_vars

(***************************************************************************)
(* Trackers constructed on a lineage file that this program did not        *)
(* necessarily write: a document is absent, is not JSON, or holds up to    *)
(* MaxDocument entries, some of which lack a member the dataclass needs.   *)
(***************************************************************************)
AssetEntry(asset) == [k |-> asset_key(asset), v |-> AssetData(asset)]

\* an asset entry without its "type" member
UntypedAssetEntry(asset) ==
    [k |-> asset_key(asset),
     v |-> [name |-> JsonOfStr(asset.name), schema |-> JsonOfStr(asset.schema)]]

\* a transformation entry without its "created_by" member
UnsignedTransformData(t) ==
    [source_assets |-> JsonOfList(t.source_assets),
     target_asset |-> JsonOfStr(t.target_asset),
     transformation_type |-> JsonOfStr(t.transformation_type),
     transformation_logic |-> JsonOfStr(t.transformation_logic),
     created_date |-> JsonOfStr(t.created_date)]

DocumentAssetEntries ==
    {AssetEntry(a) : a \in ProducerAssets}
    \cup {UntypedAssetEntry(a) : a \in {b \in ProducerAssets : b.schema = <<"s">>}}

\* the transformations a document holds: each of the two assets made from the
\* other, and one made from nothing
DocumentLog ==
    {t \in ProducerTransformations :
        \/ Len(t.source_assets) = 1 /\ t.source_assets[1] # t.target_asset
        \/ t.source_assets = <<>> /\ t.target_asset = <<"s", ".", "x">>}

DocumentTransformEntries ==
    {TransformData(t) : t \in DocumentLog}
    \cup {UnsignedTransformData(t) :
             t \in {u \in DocumentLog : u.source_assets = <<>>}}

\* a JSON object has each key once
DistinctKeys(entries) == \A i, j \in 1..Len(entries) : entries[i].k = entries[j].k => i = j

Documents ==
    {NoFile, [exists |-> TRUE, parses |-> FALSE]}
    \cup {[exists |-> TRUE, parses |-> TRUE, assets |-> as, transformations |-> ts,
           last_updated |-> CHOOSE d \in Dates : TRUE] :
             as \in {q \in SeqsUpTo(DocumentAssetEntries, MaxDocument) : DistinctKeys(q)},
             ts \in {q \in SeqsUpTo(DocumentTransformEntries, MaxDocument) : TRUE}}

\* DataLineageTracker() on a disk that holds the document
InitLoad ==
    /\ lineage_file \in {d \in Documents :
                            d.exists /\ d.parses =>
                                Len(d.assets) + Len(d.transformations) <= MaxDocument}
    /\ LET s == LoadLineage(NewTracker, lineage_file)
       IN  /\ assets = s.tracker.assets
           /\ transformations = s.tracker.transformations
           /\ dependencies = s.tracker.dependencies
           /\ downstream = s.tracker.downstream
           /\ last_call = Call("__init__", None, None, s.logged)
    /\ result = NoResult

NextLoad ==
    \/ \E asset \in ProducerAssets : add_asset(asset)
    \/ \E t \in DocumentLog : add_transformation(t)
    \/ load_lineage
    \/ new_tracker

SpecLoad == InitLoad /\ [][NextLoad]_vars

(***************************************************************************)
(* The round trip: a tracker built by add_asset and add_transformation is  *)
(* saved, and a new tracker is constructed on the file.                    *)
(***************************************************************************)
\* per key an asset with its optional fields at their defaults and one with a
\* description and two tags
RoundTripAssets ==
    {a \in DescribedAssets :
        \/ a.type = "table" /\ a.description = None /\ a.tags = <<>>
        \/ a.type = "view" /\ a.description # None /\ a.tags # <<>>}

NextRoundTrip ==
    \/ ~lineage_file.exists /\ \E asset \in RoundTripAssets : add_asset(asset)
    \/ ~lineage_file.exists /\ \E t \in ProducerTransformations : add_transformation(t)
    \/ ~lineage_file.exists /\ save_lineage
    \/ last_call.op = "save_lineage" /\ new_tracker

SpecRoundTrip == Init /\ [][NextRoundTrip]_vars

\* the registry alone: add_asset with assets that differ under one key
NextRegistry == \E asset \in DescribedAssets : add_asset(asset)

SpecRegistry == Init /\ [][NextRegistry]_vars

(***************************************************************************)
(* The trackers risk levels are computed on: the asset b.x is read by      *)
(* `direct` transformations, one per direct consumer, and the first        *)
(* consumer is read by the transformations of further assets, `fan` assets *)
(* being downstream of b.x in all. Every asset is registered first, as     *)
(* initialize_warehouse_lineage does.                                      *)
(***************************************************************************)
Digit == <<"0", "1", "2", "3", "4", "5", "6", "7", "8", "9">>

\* f"{i}"
RECURSIVE Numeral(_)
Numeral(i) ==
    IF i < 10 THEN <<Digit[i + 1]>> ELSE Numeral(i \div 10) \o <<Digit[(i % 10) + 1]>>

TableAsset(schema, name) ==
    [name |-> name, type |-> "table", schema |-> schema, description |-> None,
     created_date |-> None, last_modified |-> None, owner |-> None, tags |-> <<>>]

RootAsset == TableAsset(<<"b">>, <<"x">>)

Consumer(i) == TableAsset(<<"s">>, <<"t">> \o Numeral(i))

Etl(source, target) ==
    [source_assets |-> <<source>>, target_asset |-> target,
     transformation_type |-> "etl",
     transformation_logic |-> CHOOSE x \in Logic : TRUE,
     created_date |-> CHOOSE x \in Dates : TRUE,
     created_by |-> CHOOSE x \in Authors : TRUE]

FanLog(fan, direct) ==
    [i \in 1..fan |->
        Etl(IF i <= direct THEN asset_key(RootAsset) ELSE asset_key(Consumer(1)),
            asset_key(Consumer(i)))]

FanTracker(fan, direct) ==
    AddTransformations(
        AddAssets(NewTracker, <<RootAsset>> \o [i \in 1..fan |-> Consumer(i)]),
        FanLog(fan, direct))

FanShapes ==
    {s \in (0..MaxFan) \X (0..MaxDirect) : s[2] <= s[1] /\ (s[2] = 0 => s[1] = 0)}

InitRisk ==
    /\ \E s \in FanShapes :
           LET st == FanTracker(s[1], s[2])
           IN  /\ assets = st.assets
               /\ transformations = st.transformations
               /\ dependencies = st.dependencies
               /\ downstream = st.downstream
    /\ lineage_file = NoFile
    /\ last_call = Call("declared", None, None, None)
    /\ result = NoResult

\* the changed_assets lists: none, the root once and twice, its first consumer
\* alone and with the root
RiskChanged ==
    {<<>>, <<asset_key(RootAsset)>>, <<asset_key(RootAsset), asset_key(RootAsset)>>,
     <<asset_key(Consumer(1))>>, <<asset_key(RootAsset), asset_key(Consumer(1))>>}

NextRisk == \E changed_assets \in RiskChanged : query_analyze_impact(changed_assets)

SpecRisk == InitRisk /\ [][NextRisk]_vars

(***************************************************************************)
(* Definitions the properties are stated with                              *)
(***************************************************************************)
RECURSIVE Grow(_, _)
Grow(map, S) ==
    LET T == S \cup UNION {GetOrEmpty(map, k) : k \in S}
    IN  IF T = S THEN S ELSE Grow(map, T)

\* the keys reachable from a by one or more edges of map
Reachable(map, a) == Grow(map, GetOrEmpty(map, a))

Last(q) == q[Len(q)]

NoDuplicates(q) == \A i, j \in 1..Len(q) : q[i] = q[j] => i = j

\* some key lies on a cycle of map
Cyclic(map) == \E k \in Keys : k \in Reachable(map, k)

\* the maps that add_asset for every registered asset and then add_transformation
\* for every entry of the log build
Incremental ==
    AddTransformations(AddAssets(NewTracker, [i \in 1..Len(assets) |-> assets[i].v]),
                       transformations)

\* what the two closure queries return for key a
Upstream(a) == get_upstream_dependencies(a, {}, 1).value

Downstream(a) == get_downstream_impact(a, {}, 1).value

\* the keys a transformation of the log names as its target or as a source
LoggedKeys ==
    UNION {{transformations[i].target_asset} \cup Range(transformations[i].source_assets) :
              i \in 1..Len(transformations)}

\* the pairs of a transformation of the log (its index) and a changed asset among
\* its sources, and the record analyze_impact makes of such a pair
TriggeredPairs(changed_assets) ==
    {pair \in (1..Len(transformations)) \X Range(changed_assets) :
        pair[2] \in Range(transformations[pair[1]].source_assets)}

RecordOf(pair) ==
    [transformation |-> transformations[pair[1]].target_asset,
     type |-> transformations[pair[1]].transformation_type,
     affected_source |-> pair[2]]

\* a key that is neither registered nor named by a transformation of the log
Unknown(k) == k \notin DictKeys(assets) \cup LoggedKeys

\* the number of leading entries of a document that a dataclass accepts
AcceptedAssets(entries) ==
    CHOOSE n \in 0..Len(entries) :
        /\ \A i \in 1..n : AssetArguments(entries[i].v)
        /\ n < Len(entries) => ~AssetArguments(entries[n + 1].v)

AcceptedTransformations(entries) ==
    CHOOSE n \in 0..Len(entries) :
        /\ \A i \in 1..n : TransformationArguments(entries[i])
        /\ n < Len(entries) => ~TransformationArguments(entries[n + 1])

\* tracker `after` and the logged exception are what a load of the present
\* document `file` into tracker `before` may leave: the entries ahead of the first
\* rejected one stored, none behind it, and nothing that was stored taken back
PartlyLoaded(before, file, after, logged) ==
    IF ~file.parses
    THEN after = before /\ logged = "JSONDecodeError"
    ELSE LET na == AcceptedAssets(file.assets)
             nt == IF na < Len(file.assets) THEN 0
                   ELSE AcceptedTransformations(file.transformations)
             stored == {file.assets[i].k : i \in 1..na}
             complete == na = Len(file.assets) /\ nt = Len(file.transformations)
         IN  /\ DictKeys(after.assets) = DictKeys(before.assets) \cup stored
             /\ Len(after.assets) = Cardinality(DictKeys(after.assets))
             /\ \A i \in 1..na :
                    DictGet(after.assets, file.assets[i].k)
                        = NewDataAsset(file.assets[i].v)
             /\ \A k \in DictKeys(before.assets) \ stored :
                    DictGet(after.assets, k) = DictGet(before.assets, k)
             /\ after.transformations =
                    before.transformations
                        \o [i \in 1..nt |-> NewDataTransformation(file.transformations[i])]
             /\ ~complete =>
                    /\ logged = "TypeError"
                    /\ after.dependencies = before.dependencies
                    /\ after.downstream = before.downstream
             /\ complete => logged \in {None, "KeyError"}

(***************************************************************************)
(* C1: in every reachable state, every source s of every transformation of *)
(* the log with target t is in dependencies[t], and t is in downstream[s]. *)
(***************************************************************************)
C1_LogEdgesAreInBothMaps ==
    \A i \in 1..Len(transformations) :
        LET t == transformations[i].target_asset
        IN  \A s \in Range(transformations[i].source_assets) :
                /\ s \in GetOrEmpty(dependencies, t)
                /\ t \in GetOrEmpty(downstream, s)

(***************************************************************************)
(* C2: immediately after add_transformation(T), T is the last entry of the *)
(* log, its target is a key of dependencies, every source of T is in       *)
(* dependencies[target] and is a key of downstream whose set holds target. *)
(***************************************************************************)
C2_AddTransformationPost ==
    last_call.op = "add_transformation" =>
        LET T == last_call.arg
            t == T.target_asset
        IN  /\ transformations # <<>>
            /\ Last(transformations) = T
            /\ t \in DOMAIN dependencies
            /\ \A s \in Range(T.source_assets) :
                   /\ s \in dependencies[t]
                   /\ s \in DOMAIN downstream
                   /\ t \in downstream[s]

\* add_transformation of two sources, one of them the target itself, into a
\* tracker with no asset registered
C2_Witness ==
    /\ last_call.op = "add_transformation"
    /\ assets = <<>>
    /\ Len(last_call.arg.source_assets) = 2
    /\ last_call.arg.target_asset \in Range(last_call.arg.source_assets)
    /\ Cardinality(Range(last_call.arg.source_assets)) = 2

(***************************************************************************)
(* C3: get_upstream_dependencies(a) returns exactly the keys reachable     *)
(* from a by one or more dependencies edges, on cyclic graphs too.         *)
(***************************************************************************)
C3_UpstreamIsClosure ==
    result.op = "get_upstream_dependencies" =>
        /\ result.raised = None
        /\ result.value = Reachable(dependencies, result.args[1])

\* a cyclic graph in which the key asked for reaches all three keys, itself included
C3_Witness ==
    /\ result.op = "get_upstream_dependencies"
    /\ result.args[1] \in result.value
    /\ result.value = Keys

(***************************************************************************)
(* C4: get_downstream_impact(a) returns exactly the keys reachable from a  *)
(* by one or more downstream edges.                                        *)
(***************************************************************************)
C4_DownstreamIsClosure ==
    result.op = "get_downstream_impact" =>
        /\ result.raised = None
        /\ result.value = Reachable(downstream, result.args[1])

\* a key with two direct consumers, one of which feeds the other
C4_Witness ==
    /\ result.op = "get_downstream_impact"
    /\ result.args[1] \notin result.value
    /\ Cardinality(GetOrEmpty(downstream, result.args[1])) = 2
    /\ \E k \in result.value : GetOrEmpty(downstream, k) \cap result.value # {}

(***************************************************************************)
(* C5: on every graph, cyclic ones included, no chain of nested calls of   *)
(* get_upstream_dependencies, get_downstream_impact or get_lineage_path    *)
(* is longer than RecursionLimit: each of them returns.                    *)
(***************************************************************************)
C5_TraversalsReturn ==
    result.op \in {"get_upstream_dependencies", "get_downstream_impact",
                   "get_lineage_path"} =>
        result.raised = None

\* a path search that finds nothing in a graph with a cycle through the source
C5_Witness ==
    /\ result.op = "get_lineage_path"
    /\ result.raised = None
    /\ result.value = <<>>
    /\ result.args[1] \in Reachable(downstream, result.args[1])
    /\ Cardinality(Reachable(downstream, result.args[1])) = 2

(***************************************************************************)
(* C6: after any sequence of add_asset and add_transformation calls, the   *)
(* results of get_upstream_dependencies and get_downstream_impact hold     *)
(* only keys of the asset registry.                                        *)
(***************************************************************************)
C6_ClosuresHoldOnlyRegisteredAssets ==
    \A a \in Keys :
        /\ Upstream(a) \subseteq DictKeys(assets)
        /\ Downstream(a) \subseteq DictKeys(assets)

(***************************************************************************)
(* C6, as amended: after any sequence of add_asset and add_transformation  *)
(* calls, the results of get_upstream_dependencies and                     *)
(* get_downstream_impact hold only keys that are registered assets or are  *)
(* named by a transformation of the log, so a result has at most as many   *)
(* elements as there are such keys.                                        *)
(***************************************************************************)
C6_ClosuresHoldOnlyDeclaredKeys ==
    \A a \in Keys :
        /\ Upstream(a) \subseteq DictKeys(assets) \cup LoggedKeys
        /\ Downstream(a) \subseteq DictKeys(assets) \cup LoggedKeys
        /\ Cardinality(Upstream(a)) <= Cardinality(DictKeys(assets) \cup LoggedKeys)
        /\ Cardinality(Downstream(a)) <= Cardinality(DictKeys(assets) \cup LoggedKeys)

\* a registered asset whose upstream closure holds a key that was never registered
C6_Witness ==
    \E a \in DictKeys(assets) :
        /\ Upstream(a) \ DictKeys(assets) # {}
        /\ Upstream(a) \cap DictKeys(assets) # {}

(***************************************************************************)
(* C7: called on the maps that add_asset and add_transformation built,     *)
(* _rebuild_dependency_graphs raises nothing and leaves dependencies and   *)
(* downstream as they were.                                                *)
(***************************************************************************)
C7_RebuildKeepsIncrementalMaps ==
    [][(/\ dependencies = Incremental.dependencies
        /\ downstream = Incremental.downstream
        /\ rebuild_dependency_graphs)
       => (/\ last_call'.raised = None
           /\ dependencies' = dependencies
           /\ downstream' = downstream)]_vars

(***************************************************************************)
(* C8: get_lineage_path(source, target) returns the empty list or a list   *)
(* from source to target along downstream edges in which no key occurs     *)
(* twice; it returns the empty list exactly when source differs from       *)
(* target and target is not reachable from source over downstream edges.   *)
(***************************************************************************)
C8_LineagePathIsSimplePath ==
    result.op = "get_lineage_path" =>
        LET path == result.value
            source == result.args[1]
            target == result.args[2]
        IN  /\ result.raised = None
            /\ path # <<>> =>
                   /\ path[1] = source
                   /\ Last(path) = target
                   /\ \A i \in 1..(Len(path) - 1) :
                          path[i + 1] \in GetOrEmpty(downstream, path[i])
                   /\ NoDuplicates(path)
            /\ path = <<>> <=>
                   (source # target /\ target \notin Reachable(downstream, source))

\* a path over all three keys found in a graph with a cycle
C8_Witness ==
    /\ result.op = "get_lineage_path"
    /\ Len(result.value) = 3
    /\ Cyclic(downstream)

(***************************************************************************)
(* C9: the affected_assets of analyze_impact(changed_assets) are, as a     *)
(* set, the union of get_downstream_impact(c) over the changed assets c,   *)
(* each listed once; a changed asset that is downstream of a changed asset *)
(* stays in the list.                                                      *)
(***************************************************************************)
C9_AffectedAssetsAreUnionOfImpacts ==
    result.op = "analyze_impact" =>
        /\ result.raised = None
        /\ Range(result.value.affected_assets) =
               UNION {Downstream(c) : c \in Range(result.args[1])}
        /\ NoDuplicates(result.value.affected_assets)

\* two changed assets, the second downstream of the first and on a cycle
C9_Witness ==
    /\ result.op = "analyze_impact"
    /\ Len(result.args[1]) = 2
    /\ result.args[1][1] # result.args[1][2]
    /\ result.args[1][2] \in Downstream(result.args[1][1])
    /\ result.args[1][2] \in Downstream(result.args[1][2])
    /\ Range(result.args[1]) \subseteq Range(result.value.affected_assets)
    /\ Downstream(result.args[1][1]) # Downstream(result.args[1][2])

(***************************************************************************)
(* C10: analyze_impact(changed_assets) records one affected transformation *)
(* {target, type, triggering source} per pair of a transformation of the   *)
(* log and a changed asset among its sources, and no pair more than once,  *)
(* also when changed_assets lists a key more than once.                    *)
(***************************************************************************)
C10_OneRecordPerTriggeredPair ==
    result.op = "analyze_impact" =>
        LET records == result.value.affected_transformations
            pairs == TriggeredPairs(result.args[1])
        IN  /\ Len(records) = Cardinality(pairs)
            /\ \A pair \in pairs : \E j \in 1..Len(records) : records[j] = RecordOf(pair)
            /\ \A j \in 1..Len(records) : \E pair \in pairs : records[j] = RecordOf(pair)

(***************************************************************************)
(* C11: with A the number of affected assets and R the number of affected  *)
(* transformation records, analyze_impact returns HIGH iff A > 10 or       *)
(* R > 5, MEDIUM iff it is not HIGH and A > 5 or R > 2, and LOW otherwise; *)
(* A = 10 with R = 5 is MEDIUM, A = 5 with R = 2 is LOW, and 12 assets     *)
(* downstream of one changed asset is HIGH.                                *)
(***************************************************************************)
C11_RiskLevelFollowsThresholds ==
    result.op = "analyze_impact" =>
        LET A == Len(result.value.affected_assets)
            R == Len(result.value.affected_transformations)
            level == result.value.risk_level
        IN  /\ result.raised = None
            /\ level \in {"HIGH", "MEDIUM", "LOW"}
            /\ level = "HIGH" <=> (A > 10 \/ R > 5)
            /\ level = "MEDIUM" <=> (~(A > 10 \/ R > 5) /\ (A > 5 \/ R > 2))
            /\ (A = 10 /\ R = 5) => level = "MEDIUM"
            /\ (A = 5 /\ R = 2) => level = "LOW"
            /\ (Len(result.args[1]) = 1 /\ A = 12) => level = "HIGH"

\* both counts on their HIGH thresholds: ten assets downstream of the changed one,
\* five transformations reading it
C11_Witness ==
    /\ result.op = "analyze_impact"
    /\ Len(result.args[1]) = 1
    /\ Len(result.value.affected_assets) = 10
    /\ Len(result.value.affected_transformations) = 5
    /\ result.value.risk_level = "MEDIUM"

(***************************************************************************)
(* C12: the recommendations of analyze_impact depend on risk_level alone:  *)
(* the staging and the comprehensive testing entries, in that order, when  *)
(* HIGH; the single entry to test affected downstream assets when MEDIUM;  *)
(* none when LOW. The MEDIUM entry never accompanies the HIGH ones.        *)
(***************************************************************************)
C12_RecommendationsFollowRiskLevel ==
    result.op = "analyze_impact" =>
        LET level == result.value.risk_level
            listed == result.value.recommendations
        IN  /\ level = "HIGH" =>
                   listed = <<"Consider implementing changes in stages",
                              "Run comprehensive testing before deployment">>
            /\ level = "MEDIUM" => listed = <<"Test affected downstream assets">>
            /\ level = "LOW" => listed = <<>>
            /\ level = "HIGH" =>
                   \A i \in 1..Len(listed) : listed[i] # "Test affected downstream assets"

\* a HIGH analysis in which both MEDIUM tests hold as well
C12_Witness ==
    /\ result.op = "analyze_impact"
    /\ result.value.risk_level = "HIGH"
    /\ Len(result.value.affected_assets) > 10
    /\ Len(result.value.affected_transformations) > 5
    /\ Len(result.value.recommendations) = 2

(***************************************************************************)
(* C13: in every reachable state, whatever the assets, the transformations *)
(* and the cycles, analyze_impact([]) returns risk_level LOW and empty     *)
(* affected_assets, affected_transformations and recommendations.          *)
(***************************************************************************)
C13_NothingChangedIsLow ==
    (result.op = "analyze_impact" /\ result.args[1] = <<>>) =>
        /\ result.raised = None
        /\ result.value.changed_assets = <<>>
        /\ result.value.risk_level = "LOW"
        /\ result.value.affected_assets = <<>>
        /\ result.value.affected_transformations = <<>>
        /\ result.value.recommendations = <<>>

\* analyze_impact([]) on a tracker with registered assets and a cycle through
\* every key
C13_Witness ==
    /\ result.op = "analyze_impact"
    /\ result.args[1] = <<>>
    /\ assets # <<>>
    /\ \A k \in Keys : Reachable(downstream, k) = Keys

(***************************************************************************)
(* C14: after add_asset(a) the registry maps the key schema + "." + name   *)
(* to a, unchanged; an asset stored under that key before is replaced as a *)
(* whole, and the assets under all other keys are as they were.            *)
(***************************************************************************)
C14_AddAssetOverwrites ==
    [][\A a \in DescribedAssets :
          add_asset(a) =>
              LET key == a.schema \o <<".">> \o a.name
              IN  /\ key \in DictKeys(assets')
                  /\ DictGet(assets', key) = a
                  /\ Len(assets') = Cardinality(DictKeys(assets'))
                  /\ DictKeys(assets') = DictKeys(assets) \cup {key}
                  /\ \A k \in DictKeys(assets) \ {key} :
                         DictGet(assets', k) = DictGet(assets, k)]_vars

\* an asset with no description and no tags stored by the last call under the
\* key that was registered first of two
C14_Witness ==
    /\ last_call.op = "add_asset"
    /\ Len(assets) = 2
    /\ assets[1].k = asset_key(last_call.arg)
    /\ assets[1].v = last_call.arg
    /\ last_call.arg.description = None
    /\ last_call.arg.tags = <<>>
    /\ assets[2].v.description # None

(***************************************************************************)
(* C15: in every state reachable by add_asset, add_transformation and      *)
(* load_lineage, loads that fail part-way included, every key of the asset *)
(* registry is a key of dependencies and a key of downstream.              *)
(***************************************************************************)
C15_RegisteredKeysAreInBothMaps ==
    /\ DictKeys(assets) \subseteq DOMAIN dependencies
    /\ DictKeys(assets) \subseteq DOMAIN downstream

(***************************************************************************)
(* C16: for a key k that is neither a registered asset nor named by a      *)
(* transformation, get_upstream_dependencies(k) and                        *)
(* get_downstream_impact(k) return the empty set, get_lineage_path(k, t)   *)
(* returns the empty list for every t other than k, and                    *)
(* analyze_impact([k]) returns LOW with empty results; none of them raises *)
(* an error, and k is a key of neither map afterwards.                     *)
(***************************************************************************)
C16_UnknownKeyYieldsEmptyResults ==
    /\ (/\ result.op \in {"get_upstream_dependencies", "get_downstream_impact"}
        /\ Unknown(result.args[1])) =>
           (result.raised = None /\ result.value = {})
    /\ (/\ result.op = "get_lineage_path"
        /\ Unknown(result.args[1])
        /\ result.args[2] # result.args[1]) =>
           (result.raised = None /\ result.value = <<>>)
    /\ (/\ result.op = "analyze_impact"
        /\ Len(result.args[1]) = 1
        /\ Unknown(result.args[1][1])) =>
           /\ result.raised = None
           /\ result.value.risk_level = "LOW"
           /\ result.value.affected_assets = <<>>
           /\ result.value.affected_transformations = <<>>
           /\ result.value.recommendations = <<>>
    /\ \A k \in Keys :
           Unknown(k) => (k \notin DOMAIN dependencies /\ k \notin DOMAIN downstream)

\* analyze_impact of an unknown key on a tracker whose other two keys feed each
\* other
C16_Witness ==
    /\ result.op = "analyze_impact"
    /\ Len(result.args[1]) = 1
    /\ Unknown(result.args[1][1])
    /\ Cardinality(LoggedKeys) = 2
    /\ Cyclic(downstream)

(***************************************************************************)
(* C17: for every tracker built by add_asset and add_transformation,       *)
(* save_lineage followed by load_lineage in a new tracker on the same file *)
(* gives a registry with the same keys and field-for-field equal assets,   *)
(* the order of the tags included, and a log of the same length with       *)
(* field-for-field equal transformations in the same order.                *)
(***************************************************************************)
C17_SaveThenLoadKeepsRegistryAndLog ==
    [][(last_call.op = "save_lineage" /\ new_tracker) =>
          /\ DictKeys(assets') = DictKeys(assets)
          /\ Len(assets') = Len(assets)
          /\ \A k \in DictKeys(assets) :
                 \A f \in AssetFields : DictGet(assets', k)[f] = DictGet(assets, k)[f]
          /\ Len(transformations') = Len(transformations)
          /\ \A i \in 1..Len(transformations) :
                 \A f \in TransformationFields :
                     transformations'[i][f] = transformations[i][f]]_vars

\* a tracker loaded from a saved file with an asset of two tags and a
\* transformation of two different sources, one of them never registered
C17_Witness ==
    /\ last_call.op = "__init__"
    /\ lineage_file.exists
    /\ last_call.logged = "KeyError"
    /\ \E i \in 1..Len(assets) : Len(assets[i].v.tags) = 2
    /\ \E i \in 1..Len(transformations) :
           Cardinality(Range(transformations[i].source_assets)) = 2

(***************************************************************************)
(* C18: for every tracker built by add_asset and add_transformation, also  *)
(* when transformations name keys that were never registered, after        *)
(* save_lineage and load_lineage in a new tracker the rebuilt dependencies *)
(* and downstream maps are those of the original tracker.                  *)
(***************************************************************************)
C18_SaveThenLoadKeepsMaps ==
    [][(last_call.op = "save_lineage" /\ new_tracker) =>
          (dependencies' = dependencies /\ downstream' = downstream)]_vars

(***************************************************************************)
(* C19: when the lineage file does not exist, load_lineage, and with it    *)
(* the construction of a tracker, raises no error; a new tracker has an    *)
(* empty registry, an empty log and two empty maps, and a tracker that     *)
(* calls load_lineage keeps what it has.                                   *)
(***************************************************************************)
C19_AbsentFileLoadsNothing ==
    [][(~lineage_file.exists /\ (load_lineage \/ new_tracker)) =>
          /\ last_call'.raised = None
          /\ last_call'.logged = None
          /\ new_tracker =>
                 /\ assets' = <<>>
                 /\ transformations' = <<>>
                 /\ DOMAIN dependencies' = {}
                 /\ DOMAIN downstream' = {}
          /\ load_lineage =>
                 UNCHANGED <<assets, transformations, dependencies, downstream>>]_vars

\* load_lineage called with no file by a tracker that holds an asset and a
\* transformation
C19_Witness ==
    /\ last_call.op = "load_lineage"
    /\ ~lineage_file.exists
    /\ last_call.logged = None
    /\ assets # <<>>
    /\ transformations # <<>>

(***************************************************************************)
(* C20: load_lineage propagates no exception for a present but malformed   *)
(* document: a failure of the parsing, of the construction of an asset or  *)
(* a transformation, or of the rebuild is caught; the assets and           *)
(* transformations read before the failure stay in the registry and the    *)
(* log, and nothing behind the failure point is loaded.                    *)
(***************************************************************************)
C20_FailedLoadKeepsWhatItRead ==
    [][/\ (lineage_file.exists /\ load_lineage) =>
              /\ last_call'.raised = None
              /\ PartlyLoaded(Self, lineage_file,
                              Tracker(assets', transformations', dependencies',
                                      downstream'),
                              last_call'.logged)
       /\ (lineage_file.exists /\ new_tracker) =>
              /\ last_call'.raised = None
              /\ PartlyLoaded(NewTracker, lineage_file,
                              Tracker(assets', transformations', dependencies',
                                      downstream'),
                              last_call'.logged)]_vars

\* a load that stored an asset and a transformation and then met a
\* transformation entry it could not construct
C20_Witness ==
    /\ last_call.op = "load_lineage"
    /\ last_call.logged = "TypeError"
    /\ lineage_file.exists
    /\ lineage_file.parses
    /\ Len(lineage_file.assets) = 1
    /\ Len(lineage_file.transformations) = 2
    /\ TransformationArguments(lineage_file.transformations[1])
    /\ lineage_file.assets[1].k \in DictKeys(assets)
    /\ transformations # <<>>
    /\ Last(transformations) = NewDataTransformation(lineage_file.transformations[1])


(***************************************************************************)
(* The lineage report: a text of lines as the diagrams are. Strings sort   *)
(* by the code points of their characters.                                 *)
(***************************************************************************)
Alphabet ==
    <<"-", ".", "0", "1", "2", "3", "4", "5", "6", "7", "8", "9",
      "A", "B", "C", "D", "E", "F", "G", "H", "I", "J", "K", "L", "M",
      "N", "O", "P", "Q", "R", "S", "T", "U", "V", "W", "X", "Y", "Z", "_",
      "a", "b", "c", "d", "e", "f", "g", "h", "i", "j", "k", "l", "m",
      "n", "o", "p", "q", "r", "s", "t", "u", "v", "w", "x", "y", "z">>

\* the place of a character in the order of the code points
Ord(c) == CHOOSE i \in 1..Len(Alphabet) : Alphabet[i] = c

\* schema.upper(): 'a'..'z' are 27 places after 'A'..'Z'
Upper(s) ==
    [i \in 1..Len(s) |-> IF Ord(s[i]) >= Ord("a") THEN Alphabet[Ord(s[i]) - 27] ELSE s[i]]

\* s < t for two strings
Less(s, t) ==
    \E i \in 1..Len(t) :
        /\ i <= Len(s) + 1
        /\ \A j \in 1..(i - 1) : s[j] = t[j]
        /\ i = Len(s) + 1 \/ Ord(s[i]) < Ord(t[i])

\* sorted(S) for a set of strings
RECURSIVE SortedStrings(_)
SortedStrings(S) ==
    IF S = {} THEN <<>>
    ELSE LET least == CHOOSE s \in S : \A t \in S : ~Less(t, s)
         IN  <<least>> \o SortedStrings(S \ {least})

\* sorted(assets, key=lambda x: x.name): a stable sort
RECURSIVE SortedByName(_)
SortedByName(list) ==
    IF list = <<>> THEN <<>>
    ELSE LET first == CHOOSE i \in 1..Len(list) :
                          /\ \A j \in 1..Len(list) : ~Less(list[j].name, list[i].name)
                          /\ \A j \in 1..(i - 1) : Less(list[i].name, list[j].name)
         IN  <<list[first]>>
             \o SortedByName(SubSeq(list, 1, first - 1) \o SubSeq(list, first + 1, Len(list)))

\* ', '.join(strings)
RECURSIVE Join(_)
Join(strings) ==
    IF strings = <<>> THEN <<>>
    ELSE IF Len(strings) = 1 THEN strings[1]
    ELSE strings[1] \o <<", ">> \o Join(Tail(strings))

\* the lines of several blocks, one block after the other
RECURSIVE Flatten(_)
Flatten(blocks) == IF blocks = <<>> THEN <<>> ELSE Head(blocks) \o Flatten(Tail(blocks))

\* the keys of the dict `schemas', in the order of their first asset
SchemaList(registry) ==
    LET firsts == SelectSeq([i \in 1..Len(registry) |-> i],
                            LAMBDA i : \A j \in 1..(i - 1) :
                                          registry[j].v.schema # registry[i].v.schema)
    IN  [n \in 1..Len(firsts) |-> registry[firsts[n]].v.schema]

\* schemas[schema]: the assets of the schema in the order of the registry
SchemaAssets(registry, schema) ==
    LET entries == SelectSeq(registry, LAMBDA e : e.v.schema = schema)
    IN  [i \in 1..Len(entries) |-> entries[i].v]

\* "=" * 80 and "-" * 40
Rule(char, n) == [i \in 1..n |-> char]

\* the line of one asset, and the line of its description if it has one;
\* "  * " is the indented bullet
AssetLines(asset) ==
    << <<"  * ">> \o asset.name \o <<" (", asset.type, ")">> >>
    \o (IF asset.description \notin {None, ""} THEN << <<"    ", asset.description>> >> ELSE <<>>)

SchemaLines(registry, schema) ==
    LET list == SortedByName(SchemaAssets(registry, schema))
    IN  << Upper(schema) \o <<" Layer (">> \o Numeral(Len(list)) \o <<" assets):">>,
           Rule("-", 40) >>
        \o Flatten([i \in 1..Len(list) |-> AssetLines(list[i])])
        \o << <<>> >>

\* the lines of one asset of the dependency analysis
DependencyLines(key, deps, impacted) ==
    IF deps = {} /\ impacted = {} THEN <<>>
    ELSE << key \o <<":">> >>
         \o (IF deps # {} THEN << <<"  Depends on: ">> \o Join(SortedStrings(deps)) >>
             ELSE <<>>)
         \o (IF impacted # {} THEN << <<"  Impacts: ">> \o Join(SortedStrings(impacted)) >>
             ELSE <<>>)
         \o << <<>> >>

\* the timestamps datetime.now() may give
Clock == {"2026-01-01 00:00:00", "2026-01-02 00:00:00"}

generate_lineage_report(now) ==
    LET keys == SortedStrings(DictKeys(assets))
        deps == [i \in 1..Len(keys) |-> get_upstream_dependencies(keys[i], {}, 1)]
        impacted == [i \in 1..Len(keys) |-> get_downstream_impact(keys[i], {}, 1)]
        schemas == SchemaList(assets)
    IN  IF \E i \in 1..Len(keys) : deps[i].raised # None \/ impacted[i].raised # None
        THEN [raised |-> "RecursionError", value |-> None]
        ELSE Returned(
                << Rule("=", 80), <<"DATA LINEAGE REPORT">>, Rule("=", 80),
                   <<"Generated: ", now>>,
                   <<"Total Assets: ">> \o Numeral(Len(assets)),
                   <<"Total Transformations: ">> \o Numeral(Len(transformations)),
                   <<>> >>
                \o Flatten([n \in 1..Len(schemas) |-> SchemaLines(assets, schemas[n])])
                \o << <<"DEPENDENCY ANALYSIS:">>, Rule("-", 40) >>
                \o Flatten([i \in 1..Len(keys) |->
                               DependencyLines(keys[i], deps[i].value, impacted[i].value)]))

query_lineage_report ==
    /\ Unanswered
    /\ \E now \in Clock :
           Answer("generate_lineage_report", <<>>, generate_lineage_report(now))

(***************************************************************************)
(* The diagrams of the trackers the producer interface builds: assets of   *)
(* styled schemas and of one other, two of them with keys that differ only *)
(* in '-' against '_'; transformations with one source, with one source    *)
(* listed twice and with no source, some of their keys not registered.     *)
(***************************************************************************)
DiagramAssets ==
    {TableAsset(Bronze, <<"a", "-", "b">>),
     TableAsset(Bronze, <<"a", "_", "b">>),
     [TableAsset(Gold, <<"x">>) EXCEPT !.type = "view"],
     TableAsset(<<"r">>, <<"x">>)}

DiagramTransformation(sources, target) ==
    [source_assets |-> sources, target_asset |-> target,
     transformation_type |-> TypeFor(sources), transformation_logic |-> "logic",
     created_date |-> "2026-01-01T00:00:00", created_by |-> "silver.load_silver"]

DiagramTransformations ==
    {DiagramTransformation(<<<<"b", ".", "a", "-", "b">>>>, <<"s", ".", "x">>),
     DiagramTransformation(<<<<"s", ".", "x">>, <<"s", ".", "x">>>>, <<"g", ".", "x">>),
     DiagramTransformation(<<>>, <<"r", ".", "x">>)}

OutputFormats == {"mermaid", "dot", "svg", "MERMAID"}

NextDiagram ==
    \/ \E asset \in DiagramAssets : add_asset(asset)
    \/ \E t \in DiagramTransformations : add_transformation(t)
    \/ \E output_format \in OutputFormats : query_lineage_diagram(output_format)

SpecDiagram == Init /\ [][NextDiagram]_vars


(***************************************************************************)
(* Reading a diagram text back: its node declarations and its edge lines   *)
(***************************************************************************)
Has(line, piece) == \E i \in 1..Len(line) : line[i] = piece

IndexOf(line, piece) == CHOOSE i \in 1..Len(line) : line[i] = piece

\* what stands between the indentation and the piece
Before(line, piece) == SubSeq(line, 2, IndexOf(line, piece) - 1)

\* what stands after the piece, the last `tail' pieces left out
After(line, piece, tail) == SubSeq(line, IndexOf(line, piece) + 1, Len(line) - tail)

LinesWith(text, piece) == SelectSeq(text, LAMBDA line : Has(line, piece))

NodeIdsOf(text, bracket) ==
    LET lines == LinesWith(text, bracket)
    IN  [i \in 1..Len(lines) |-> Before(lines[i], bracket)]

\* the name in the label of each node declaration
NodeNamesOf(text, bracket) ==
    LET lines == LinesWith(text, bracket)
    IN  [i \in 1..Len(lines) |->
            SubSeq(lines[i], IndexOf(lines[i], bracket) + 1, IndexOf(lines[i], "\\n(") - 1)]

EdgesOf(text, arrow, tail) ==
    LET lines == LinesWith(text, arrow)
    IN  [i \in 1..Len(lines) |-> <<Before(lines[i], arrow), After(lines[i], arrow, tail)>>]

\* the key with every '.' and every '-' turned into '_'
Identifier(key) == [i \in DOMAIN key |-> IF key[i] \in {".", "-"} THEN "_" ELSE key[i]]

\* the number of (source, target) pairs of the transformations before the t-th
PairsBefore(log, t) == LogSize(SubSeq(log, 1, t - 1)) - (t - 1)

PairCount(log) == LogSize(log) - Len(log)

\* the k-th (source, target) pair of the log, in log order and source-list order
PairAt(log, k) ==
    LET t == CHOOSE u \in 1..Len(log) :
                 /\ PairsBefore(log, u) < k
                 /\ k <= PairsBefore(log, u) + Len(log[u].source_assets)
    IN  <<log[t].source_assets[k - PairsBefore(log, t)], log[t].target_asset>>

ExpectedNodeIds == [i \in 1..Len(assets) |-> Identifier(assets[i].k)]

ExpectedEdges ==
    [k \in 1..PairCount(transformations) |->
        <<Identifier(PairAt(transformations, k)[1]),
          Identifier(PairAt(transformations, k)[2])>>]

IsDiagramQuery == result.op = "generate_lineage_diagram"

\* C21: generate_lineage_diagram raises ValueError for every format name other
\* than 'mermaid' and 'dot', returning no text and leaving the registry, the
\* log and both maps as they were; for 'mermaid' and 'dot' it raises nothing
\* and returns a text.
C21_OtherFormatsRaiseValueError ==
    [][(~IsDiagramQuery /\ IsDiagramQuery') =>
          /\ IF result'.args[1] \in {"mermaid", "dot"}
             THEN result'.raised = None /\ result'.value # None
             ELSE result'.raised = "ValueError" /\ result'.value = None
          /\ UNCHANGED <<assets, transformations, dependencies, downstream>>]_vars

C21_Witness ==
    /\ IsDiagramQuery
    /\ result.args[1] \notin {"mermaid", "dot"}
    /\ result.raised = "ValueError"
    /\ assets # <<>>
    /\ transformations # <<>>

OperationLog ==
    {DiagramTransformation(<<<<"b", ".", "x">>>>, <<"s", ".", "x">>),
     DiagramTransformation(<<<<"g", ".", "x">>>>, <<"s", ".", "x">>),
     DiagramTransformation(<<>>, <<"s", ".", "x">>)}

\* a registered key and one that is not
OperationKeys == {<<"b", ".", "x">>, <<"g", ".", "x">>}

NextOperations ==
    \/ \E asset \in ProducerAssets : add_asset(asset)
    \/ \E t \in OperationLog : add_transformation(t)
    \/ rebuild_dependency_graphs
    \/ save_lineage
    \/ load_lineage
    \/ \E asset \in OperationKeys : query_upstream_dependencies(asset)
    \/ \E asset \in OperationKeys : query_downstream_impact(asset)
    \/ \E source \in OperationKeys : query_lineage_path(source, <<"s", ".", "x">>)
    \/ \E asset \in OperationKeys : query_analyze_impact(<<asset>>)
    \/ \E output_format \in {"dot", "svg"} : query_lineage_diagram(output_format)
    \/ query_lineage_report

SpecOperations == Init /\ [][NextOperations]_vars

IsPrefix(s, t) == Len(s) <= Len(t) /\ SubSeq(t, 1, Len(s)) = s

\* C23: the transformation log is append-only: whatever operation a tracker
\* performs, the log after it begins with the log before it; and an
\* add_transformation leaves under its target the sources that were there
\* together with its own, so that transformations with one target accumulate.
C23_LogIsAppendOnly ==
    [][/\ IsPrefix(transformations, transformations')
       /\ (last_call'.op = "add_transformation"
             /\ Len(transformations') = Len(transformations) + 1) =>
              /\ Last(transformations') = last_call'.arg
              /\ GetOrEmpty(dependencies', last_call'.arg.target_asset)
                    = GetOrEmpty(dependencies, last_call'.arg.target_asset)
                      \cup Range(last_call'.arg.source_assets)]_vars

C23_Witness ==
    /\ last_call.op = "load_lineage"
    /\ last_call.logged = None
    /\ lineage_file.exists
    /\ Len(lineage_file.transformations) = 1
    /\ Len(transformations) = 3
    /\ \A i \in 1..3 : transformations[i].target_asset = <<"s", ".", "x">>
    /\ transformations[1].source_assets # transformations[2].source_assets
    /\ dependencies[<<"s", ".", "x">>] = {<<"b", ".", "x">>}


(***************************************************************************)
(* The rebuild from any content of the maps. dependencies and downstream   *)
(* are public attributes, and a load that fails leaves them as they were   *)
(* under a registry and a log that grew: the rebuild starts from maps with *)
(* stale edges, with entries for keys that are not registered and with     *)
(* entries missing.                                                        *)
(***************************************************************************)
RebuildLog ==
    OperationLog \cup {DiagramTransformation(<<<<"s", ".", "x">>>>, <<"b", ".", "x">>)}

Logs(T) == {log \in SeqsUpTo(T, MaxLogSize) : LogSize(log) <= MaxLogSize}

Registries ==
    {registry \in SeqsUpTo({[k |-> asset_key(a), v |-> a] : a \in ProducerAssets},
                           Cardinality(ProducerAssets)) :
        \A i, j \in 1..Len(registry) : registry[i].k = registry[j].k => i = j}

StaleMaps ==
    {EmptyMap,
     <<"b", ".", "x">> :> {<<"s", ".", "x">>},
     <<"g", ".", "x">> :> {},
     (<<"s", ".", "x">> :> {<<"b", ".", "x">>, <<"g", ".", "x">>})
        @@ (<<"b", ".", "x">> :> {})}

InitRebuild ==
    /\ assets \in Registries
    /\ transformations \in Logs(RebuildLog)
    /\ dependencies \in StaleMaps
    /\ downstream \in StaleMaps
    /\ lineage_file = NoFile
    /\ last_call = Call("__init__", None, None, None)
    /\ result = NoResult

NextRebuild ==
    \/ rebuild_dependency_graphs
    \/ \E asset \in ProducerAssets : add_asset(asset)
    \/ \E t \in RebuildLog : add_transformation(t)

SpecRebuild == InitRebuild /\ [][NextRebuild]_vars

\* the (source, target) pairs of the log in the order the rebuild replays them
Pairs(log) == [k \in 1..PairCount(log) |-> PairAt(log, k)]

\* the place of the first pair that names a key outside `keys', or one past
\* the last pair
Stop(keys, log) ==
    CHOOSE f \in 1..(PairCount(log) + 1) :
        /\ \A k \in 1..(f - 1) : Pairs(log)[k][1] \in keys /\ Pairs(log)[k][2] \in keys
        /\ f <= PairCount(log) => ~(Pairs(log)[f][1] \in keys /\ Pairs(log)[f][2] \in keys)

\* the maps as a function of the registered keys and the log alone: every
\* pair before the stop in both maps, and the pair at the stop in
\* dependencies when its target is registered
ReplayedDependencies(keys, log) ==
    [key \in keys |->
        {Pairs(log)[k][1] : k \in {n \in 1..PairCount(log) :
                                      /\ n <= Stop(keys, log)
                                      /\ Pairs(log)[n][2] = key}}]

ReplayedDownstream(keys, log) ==
    [key \in keys |->
        {Pairs(log)[k][2] : k \in {n \in 1..PairCount(log) :
                                      /\ n < Stop(keys, log)
                                      /\ Pairs(log)[n][1] = key}}]

IsRebuild(call) == call.op = "_rebuild_dependency_graphs"

\* C24: what _rebuild_dependency_graphs leaves in the maps is a function of
\* the set of registered keys and of the log, whatever the maps held before;
\* a rebuild that follows a rebuild changes nothing.
C24_RebuildDependsOnKeysAndLogOnly ==
    [][IsRebuild(last_call') =>
          /\ dependencies' = ReplayedDependencies(DictKeys(assets), transformations)
          /\ downstream' = ReplayedDownstream(DictKeys(assets), transformations)
          /\ UNCHANGED <<assets, transformations>>
          /\ IsRebuild(last_call) => UNCHANGED <<dependencies, downstream>>]_vars

C24_Witness ==
    /\ IsRebuild(last_call)
    /\ last_call.raised = None
    /\ Len(transformations) = 2
    /\ dependencies = (<<"s", ".", "x">> :> {<<"b", ".", "x">>})
                        @@ (<<"b", ".", "x">> :> {<<"s", ".", "x">>})
    /\ downstream = dependencies


\* a step of add_transformation
IsAddTransformation ==
    /\ last_call'.op = "add_transformation"
    /\ transformations' = Append(transformations, last_call'.arg)

\* every (source, target) pair of t is an edge of both maps, the target known
AllEdgesPresent(t) ==
    /\ t.target_asset \in DOMAIN dependencies
    /\ \A source \in Range(t.source_assets) :
          /\ source \in dependencies[t.target_asset]
          /\ source \in DOMAIN downstream
          /\ t.target_asset \in downstream[source]

\* C25: an add_transformation whose (source, target) pairs are all edges
\* already leaves dependencies and downstream as they were, keys and sets;
\* and any add_transformation leaves under its target the sources that were
\* there and its own, each once however often the list names it.
C25_EdgeInsertionIsIdempotent ==
    [][IsAddTransformation =>
          LET t == last_call'.arg
          IN  /\ AllEdgesPresent(t) => UNCHANGED <<dependencies, downstream>>
              /\ dependencies'[t.target_asset]
                    = GetOrEmpty(dependencies, t.target_asset) \cup Range(t.source_assets)
              /\ Cardinality(dependencies'[t.target_asset])
                    <= Cardinality(GetOrEmpty(dependencies, t.target_asset))
                       + Cardinality(Range(t.source_assets))
              /\ \A source \in Range(t.source_assets) :
                    downstream'[source]
                      = GetOrEmpty(downstream, source) \cup {t.target_asset}]_vars

C25_Witness ==
    /\ last_call.op = "add_transformation"
    /\ Len(transformations) = 2
    /\ transformations[2] = transformations[1]
    /\ Len(transformations[2].source_assets) = 1
    /\ dependencies[transformations[2].target_asset] = Range(transformations[2].source_assets)
    /\ downstream[transformations[2].source_assets[1]] = {transformations[2].target_asset}


(***************************************************************************)
(* The operations that only read the tracker, on the declared trackers     *)
(***************************************************************************)
NextRead ==
    \/ \E asset \in Keys : query_upstream_dependencies(asset)
    \/ \E asset \in Keys : query_downstream_impact(asset)
    \/ \E source \in Keys, target \in Keys : query_lineage_path(source, target)
    \/ \E changed_assets \in SeqsUpTo(Keys, MaxChanged) :
           query_analyze_impact(changed_assets)
    \/ \E output_format \in OutputFormats : query_lineage_diagram(output_format)
    \/ query_lineage_report
    \/ save_lineage

SpecRead == InitQuery /\ [][NextRead]_vars

IsRead ==
    \/ result = NoResult /\ result' # NoResult
    \/ last_call'.op = "save_lineage"

\* C26: the four queries, the diagram, the report and save_lineage leave the
\* registry, the log, dependencies and downstream as they were, whatever the
\* argument: a key the tracker does not know gets no entry in either map,
\* and analyze_impact hands back the changed_assets list it was given.
C26_ReadsLeaveTheTrackerUnchanged ==
    [][IsRead =>
          /\ UNCHANGED <<assets, transformations, dependencies, downstream>>
          /\ (result'.op = "analyze_impact" /\ result'.raised = None) =>
                 result'.value.changed_assets = result'.args[1]
          /\ last_call'.op = "save_lineage" =>
                 lineage_file' = LineageData(assets, transformations)]_vars

C26_Witness ==
    /\ result.op = "get_downstream_impact"
    /\ Unknown(result.args[1])
    /\ result.raised = None
    /\ lineage_file.exists
    /\ transformations # <<>>
    /\ DOMAIN dependencies # {}


\* C27: in every state that add_asset, add_transformation, load_lineage and
\* _rebuild_dependency_graphs reach, a rebuild that stops with an error
\* included, the two maps mirror each other: s is in dependencies[t] if and
\* only if t is in downstream[s].
C27_MapsMirrorEachOther ==
    \A s \in Keys, t \in Keys :
        s \in GetOrEmpty(dependencies, t) <=> t \in GetOrEmpty(downstream, s)


\* a walk of one edge or more along map from a back to a
OnCycle(map, a) ==
    \E walk \in SeqsUpTo(Keys, Cardinality(Keys) + 1) :
        /\ Len(walk) >= 2
        /\ walk[1] = a
        /\ Last(walk) = a
        /\ \A i \in 1..(Len(walk) - 1) : walk[i + 1] \in GetOrEmpty(map, walk[i])

Acyclic(map) == \A k \in Keys : ~OnCycle(map, k)

\* C28: get_downstream_impact(a) holds a exactly when a walk of one edge or
\* more along downstream leads from a back to a, and get_upstream_dependencies(a)
\* likewise along dependencies; when the map has no cycle no closure holds
\* its start key; get_lineage_path(a, a) is [a], the key registered or not.
C28_OwnClosureMeansCycle ==
    /\ (result.op = "get_downstream_impact" /\ result.raised = None) =>
          /\ result.args[1] \in result.value <=> OnCycle(downstream, result.args[1])
          /\ Acyclic(downstream) => result.args[1] \notin result.value
    /\ (result.op = "get_upstream_dependencies" /\ result.raised = None) =>
          /\ result.args[1] \in result.value <=> OnCycle(dependencies, result.args[1])
          /\ Acyclic(dependencies) => result.args[1] \notin result.value
    /\ (result.op = "get_lineage_path" /\ result.args[1] = result.args[2]) =>
          /\ result.raised = None
          /\ result.value = <<result.args[1]>>
    /\ \A a \in Keys : get_lineage_path(a, a) = {Returned(<<a>>)}

C28_Witness ==
    /\ result.op = "get_upstream_dependencies"
    /\ result.raised = None
    /\ result.args[1] \in result.value
    /\ result.args[1] \notin dependencies[result.args[1]]
    /\ \E k \in Keys : ~OnCycle(dependencies, k) /\ GetOrEmpty(dependencies, k) # {}


\* every key of map a key of later, with at least the same set
Within(map, later) ==
    /\ DOMAIN map \subseteq DOMAIN later
    /\ \A k \in DOMAIN map : map[k] \subseteq later[k]

\* C29: under add_asset and add_transformation nothing is taken away: the
\* keys of the registry and of both maps stay, every set of both maps keeps
\* its elements (add_asset for a known key included), and for every key the
\* results of get_upstream_dependencies and get_downstream_impact after a
\* call hold the results before it.
C29_GraphOnlyGrows ==
    [][/\ DictKeys(assets) \subseteq DictKeys(assets')
       /\ Within(dependencies, dependencies')
       /\ Within(downstream, downstream')
       /\ \A a \in Keys :
             /\ get_upstream_dependencies(a, {}, 1).raised = None
             /\ get_upstream_dependencies(a, {}, 1).value
                   \subseteq (get_upstream_dependencies(a, {}, 1).value)'
             /\ get_downstream_impact(a, {}, 1).raised = None
             /\ get_downstream_impact(a, {}, 1).value
                   \subseteq (get_downstream_impact(a, {}, 1).value)']_vars

\* add_asset for a key that already had an edge in each direction
C29_Witness ==
    /\ last_call.op = "add_asset"
    /\ dependencies[asset_key(last_call.arg)] # {}
    /\ downstream[asset_key(last_call.arg)] # {}
    /\ Cardinality(Upstream(asset_key(last_call.arg))) = 2


(***************************************************************************)
(* initialize_warehouse_lineage and the run of main, started again and     *)
(* again on the lineage file the run before it saved                       *)
(***************************************************************************)
\* crm_cust_info, crm_prd_info, crm_sales_details, erp_cust_az12, erp_loc_a101,
\* erp_px_cat_g1v2
bronze_tables ==
    <<<<"c", "r", "m", "_", "c", "u", "s", "t", "_", "i", "n", "f", "o">>,
      <<"c", "r", "m", "_", "p", "r", "d", "_", "i", "n", "f", "o">>,
      <<"c", "r", "m", "_", "s", "a", "l", "e", "s", "_", "d", "e", "t", "a", "i", "l", "s">>,
      <<"e", "r", "p", "_", "c", "u", "s", "t", "_", "a", "z", "1", "2">>,
      <<"e", "r", "p", "_", "l", "o", "c", "_", "a", "1", "0", "1">>,
      <<"e", "r", "p", "_", "p", "x", "_", "c", "a", "t", "_", "g", "1", "v", "2">>>>

silver_tables == bronze_tables

\* dim_customers, dim_products, fact_sales
gold_objects ==
    <<[name |-> <<"d", "i", "m", "_", "c", "u", "s", "t", "o", "m", "e", "r", "s">>,
       type |-> "view",
       description |-> "Customer dimension with demographics"],
      [name |-> <<"d", "i", "m", "_", "p", "r", "o", "d", "u", "c", "t", "s">>,
       type |-> "view",
       description |-> "Product dimension with categories"],
      [name |-> <<"f", "a", "c", "t", "_", "s", "a", "l", "e", "s">>,
       type |-> "view",
       description |-> "Sales fact table with metrics"]>>

\* f"{schema}.{name}"
WarehouseKey(schema, name) == schema \o <<".">> \o name

silver_logic ==
    <<"Data cleansing and standardization", "Product data transformation",
      "Sales data validation and cleansing", "Customer demographic cleansing",
      "Location data standardization", "Category data transformation">>

\* the values datetime.now().isoformat() gives to the calls of one run
SeedClock == {"2026-01-01T00:00:00", "2026-01-02T00:00:00"}

\* the runs of main that are followed
MaxCycles == 3

\* the fifteen assets in the order initialize_warehouse_lineage adds them
WarehouseAssets(now) ==
    [i \in 1..Len(bronze_tables) |->
        [name |-> bronze_tables[i], type |-> "table", schema |-> Bronze,
         description |-> "Raw data from source system", created_date |-> now,
         last_modified |-> None, owner |-> "ETL Pipeline",
         tags |-> <<"raw", "bronze", "source">>]]
    \o [i \in 1..Len(silver_tables) |->
        [name |-> silver_tables[i], type |-> "table", schema |-> Silver,
         description |-> "Cleansed and standardized data", created_date |-> now,
         last_modified |-> None, owner |-> "ETL Pipeline",
         tags |-> <<"cleansed", "silver", "standardized">>]]
    \o [i \in 1..Len(gold_objects) |->
        [name |-> gold_objects[i].name, type |-> gold_objects[i].type, schema |-> Gold,
         description |-> gold_objects[i].description, created_date |-> now,
         last_modified |-> None, owner |-> "Analytics Team",
         tags |-> <<"analytics", "gold", "star-schema">>]]

WarehouseView(sources, target, logic, author, now) ==
    [source_assets |-> sources, target_asset |-> target, transformation_type |-> "view",
     transformation_logic |-> logic, created_date |-> now, created_by |-> author]

\* the nine transformations in the order initialize_warehouse_lineage adds them
WarehouseTransformations(now) ==
    [i \in 1..Len(bronze_tables) |->
        [source_assets |-> <<WarehouseKey(Bronze, bronze_tables[i])>>,
         target_asset |-> WarehouseKey(Silver, silver_tables[i]),
         transformation_type |-> "etl", transformation_logic |-> silver_logic[i],
         created_date |-> now, created_by |-> "silver.load_silver"]]
    \o <<WarehouseView(<<WarehouseKey(Silver, silver_tables[1]),
                          WarehouseKey(Silver, silver_tables[4]),
                          WarehouseKey(Silver, silver_tables[5])>>,
                        WarehouseKey(Gold, gold_objects[1].name),
                        "Customer dimension combining CRM and ERP data",
                        "gold.dim_customers view", now),
          WarehouseView(<<WarehouseKey(Silver, silver_tables[2]),
                          WarehouseKey(Silver, silver_tables[6])>>,
                        WarehouseKey(Gold, gold_objects[2].name),
                        "Product dimension with category information",
                        "gold.dim_products view", now),
          WarehouseView(<<WarehouseKey(Silver, silver_tables[3]),
                          WarehouseKey(Gold, gold_objects[1].name),
                          WarehouseKey(Gold, gold_objects[2].name)>>,
                        WarehouseKey(Gold, gold_objects[3].name),
                        "Sales fact table with dimension keys",
                        "gold.fact_sales view", now)>>

InitializeWarehouseLineage(st, now) ==
    AddTransformations(AddAssets(st, WarehouseAssets(now)), WarehouseTransformations(now))

initialize_warehouse_lineage(now) ==
    /\ Len(transformations) + Len(WarehouseTransformations(now))
          <= MaxCycles * Len(WarehouseTransformations(now))
    /\ Becomes(InitializeWarehouseLineage(Self, now))
    /\ last_call' = Call("initialize_warehouse_lineage", now, None, None)
    /\ result' = NoResult
    /\ UNCHANGED lineage_file

\* main: DataLineageTracker(), initialize_warehouse_lineage(), save_lineage(), then
\* the report, the mermaid diagram and the impact analysis; and main again
NextReseed ==
    \/ /\ last_call.op = "__init__"
       /\ \E now \in SeedClock : initialize_warehouse_lineage(now)
    \/ /\ last_call.op = "initialize_warehouse_lineage"
       /\ save_lineage
    \/ /\ last_call.op = "save_lineage"
       /\ query_lineage_report
    \/ /\ last_call.op = "save_lineage"
       /\ query_lineage_diagram("mermaid")
    \/ /\ last_call.op = "save_lineage"
       /\ query_analyze_impact(<<WarehouseKey(Bronze, bronze_tables[1])>>)
    \/ /\ last_call.op = "save_lineage"
       /\ new_tracker

SpecReseed == Init /\ [][NextReseed]_vars

\* the tracker after the first run of main
FirstCycle == InitializeWarehouseLineage(NewTracker, CHOOSE now \in SeedClock : TRUE)

\* C30: every run of the cycle 'construct the tracker, which loads the saved
\* document, initialize_warehouse_lineage, save_lineage' leaves the asset
\* keys, both maps and the log of nine transformations as the first run left
\* them, so that analyze_impact(['bronze.crm_cust_info']) gives the same
\* risk_level and as many affected-transformation records after every run.
C30_ReseedingIsIdempotent ==
    last_call.op = "save_lineage" =>
        /\ DictKeys(assets) = DictKeys(FirstCycle.assets)
        /\ dependencies = FirstCycle.dependencies
        /\ downstream = FirstCycle.downstream
        /\ Len(transformations) = 9
        /\ (result.op = "analyze_impact" /\ result.raised = None) =>
              /\ result.value.risk_level = "LOW"
              /\ Len(result.value.affected_transformations) = 1

====
